---------------------------- MODULE Spec2Model ----------------------------
(***************************************************************************)
(* A model of the Jacobian tape of CoDiPack: the adjoint vector of         *)
(* JacobianBaseTape (include/codi/tapes/jacobianBaseTape.hpp), the index   *)
(* manager that sizes it, the statement log and the forward and reverse    *)
(* sweeps over it; and of the matrix-matrix multiplication recorded as a   *)
(* low-level function (include/codi/tools/lowlevelFunctions/linearAlgebra/ *)
(* matrixMatrixMultiplication.hpp): its registration, its store routine    *)
(* and the forward, reverse and del routines that replay a record.         *)
(*                                                                         *)
(* Spec lets every member function of the tape be called in any order,     *)
(* RecordSpec records, seeds and evaluates elementary statements,          *)
(* StoreSpec stores and replays multiplications in one thread, ThreadSpec  *)
(* has two threads call store, and MatSpec stores one multiplication,      *)
(* seeds the vector and replays the record.  MarkSpec stores matrices      *)
(* whose elements are partly passive, PrimalSpec stores and replays on a   *)
(* tape that keeps primal values, and IncrementSpec records and            *)
(* differentiates the increment operators of ActiveType                    *)
(* (include/codi/expressions/activeType.hpp) as TestIncrementOperators     *)
(* uses them.                                                              *)
(*                                                                         *)
(* A vector of the program is a sequence: slot i of the program's vector   *)
(* (0-based) is element i + 1 of the sequence.  An access outside the      *)
(* vector is undefined behaviour in C++: the model records it in call.oob  *)
(* and, for a read, lets the value read be any of GarbageValues.           *)
(***************************************************************************)
EXTENDS Integers, Sequences, FiniteSets, TLC

(* ------------------------------ bounds -------------------------------- *)

\* The index manager issues identifiers 1 .. MaxIndex.
MaxIndex == 1

\* setParameter(AdjointSize, v) is called with v in 0 .. MaxSize, and
\* gradient(id) with id in 0 .. MaxSize.
MaxSize == 3

\* The statement log holds at most MaxStmts statements.
MaxStmts == 1

\* The values a caller writes through gradient(id).
Seeds == {0, 1}

\* The adjoint values of the tape: a sweep whose result leaves them is not
\* taken.
AdjointValues == {0, 1}

\* The partial derivatives of a recorded statement.
Partials == {1}

\* What a read outside the vector may yield.
GarbageValues == {-1, 0, 1}

\* A recording (RecordSpec) registers one input x0 with a value of Inputs
\* and records at most MaxOps operations; a sweep whose adjoints leave
\* -MaxAdjoint .. MaxAdjoint is not taken.
Inputs == {2, 3}
MaxOps == 2
MaxAdjoint == 7

\* The tape holds at most MaxRecords records of the matrix multiplication.
MaxRecords == 2

\* The dimensions (n, k, m) of the multiplications stored in StoreSpec, and
\* the identifiers the elements of their arguments hold (0: passive).
Shapes == {<<1, 2, 1>>, <<2, 1, 2>>}
StoreIdentifiers == {0, 1}

\* ThreadSpec: the threads that call store, each at most MaxStores times.
Threads == {1, 2}
MaxStores == 2

\* MatSpec: the dimensions (n, k, m) and the primal values of the matrices
\* multiplied.
MatShapes == {<<2, 2, 2>>, <<1, 2, 1>>, <<2, 1, 1>>}
PrimalValues == {1, 2}

VARIABLES
  policy,     \* the index manager's policy: "Linear" or "Reuse"
  largest,    \* indexManager.getLargestCreatedIndex()
  adjoints,   \* JacobianBaseTape::adjoints, the adjoint vector
  stmts,      \* the statement log: a sequence of [lhs, args]
  call,       \* the last call made on the tape and what it did
  primal,     \* primal[i]: the value of the variable with identifier i
  seeds,      \* the identifiers seeded with 1 since the vector was zero
  clean,      \* no sweep has written to the vector since it was zero
  runs,       \* the sweeps made: their range, seeds and resulting adjoints
  ID,         \* ExtFunc_matrixMatrixMultiplication::ID, the function's token
  registry,   \* the low-level functions registered, by token
  lowLevel,   \* the records of the matrix multiplication on the tape
  last,       \* the last call of store, forward, reverse or del
  pc,         \* pc[t]: where thread t is in store, and the tokens it pushed
  mats,       \* the multiplication replayed: its arguments and seeds
  func        \* TestIncrementOperators::func: its x, its y and its position

tape == <<policy, largest, adjoints, stmts, call>>
recording == <<primal, seeds, clean, runs, func>>
external == <<ID, registry, lowLevel, last, pc, mats>>
vars == <<policy, largest, adjoints, stmts, call, primal, seeds, clean, runs,
          ID, registry, lowLevel, last, pc, mats, func>>

(* ------------------------- LocalAdjoints ------------------------------ *)

\* adjoints.size()
Size(v) == Len(v)

\* adjoints[i] for a valid index i
Slot(v, i) == v[i + 1]

\* adjoints.resize(n): reallocate and copy, new slots are Gradient()
Resize(v, n) == [i \in 1 .. n |-> IF i <= Len(v) THEN v[i] ELSE 0]

\* adjoints.zeroAll()
ZeroAll(v) == [i \in 1 .. Len(v) |-> 0]

\* LocalAdjoints(initialSize)
NewAdjoints(n) == [i \in 1 .. n |-> 0]

InBounds(v, i) == i >= 0 /\ i < Size(v)

(* ----------------------- JacobianBaseTape ----------------------------- *)

\* resizeAdjointsVector() without the + 1
resizeAdjointsVectorShort(v, lci) == Resize(v, lci)

\* resizeAdjointsVector()
resizeAdjointsVector(v, lci) == Resize(v, lci + 1)

\* checkAdjointSize(identifier) with > for >=
checkAdjointSizeStrict(v, identifier, lci) ==
  IF identifier > Size(v) THEN resizeAdjointsVector(v, lci) ELSE v

\* checkAdjointSize(identifier)
checkAdjointSize(v, identifier, lci) ==
  IF identifier >= Size(v) THEN resizeAdjointsVector(v, lci) ELSE v

\* The index gradient(identifier) const reads.
constGradientIndex(v, identifier) ==
  IF identifier > Size(v) THEN 0 ELSE identifier

\* call: op is the member function called, arg its identifier argument (or,
\* for a sweep, the number of statements it evaluated), size the size of
\* the adjoint vector when it was called, oob whether it accessed the
\* vector outside its bounds, failed whether it ended with an error (a
\* precondition violation, an unsupported parameter), ret the value it
\* returned, invalid whether a sweep was called with start > end.
NoCall == [op |-> "construct", arg |-> 0, size |-> 0, oob |-> FALSE,
           failed |-> FALSE, ret |-> 0, invalid |-> FALSE]

Called(op) == [NoCall EXCEPT !.op = op, !.size = Size(adjoints)]

(* --------------------------- index manager ---------------------------- *)

\* The identifiers create() may return: the next one above the watermark
\* and, with the reuse policy, any identifier issued before and freed.
CreatedIds(pol, lci) ==
  {lci + 1} \cup (IF pol = "Reuse" THEN 1 .. lci ELSE {})

\* getLargestCreatedIndex() after create() returned id
LargestAfter(lci, id) == IF id > lci THEN id ELSE lci

(* --------------------------- statement log ---------------------------- *)

\* A Jacobian entry: (argument identifier, partial derivative)
Entries(lci) == [id : 1 .. lci, jac : Partials]

\* The Jacobian entries of one elementary operation: none (all arguments
\* passive), one (unary) or two (binary).
ArgLists(lci) ==
  {<<>>} \cup {<<e>> : e \in Entries(lci)}
         \cup {<<e, f>> : e \in Entries(lci), f \in Entries(lci)}

\* The identifiers statement st touches.
StmtIds(st) == {st.lhs} \cup {st.args[k].id : k \in 1 .. Len(st.args)}

\* Every identifier of the statements start + 1 .. end is a valid index of v.
SweepInBounds(v, log, start, end) ==
  \A p \in (start + 1) .. end : \A i \in StmtIds(log[p]) : InBounds(v, i)

InRange(v) == \A i \in 1 .. Len(v) : v[i] \in AdjointValues

(* ------------------------------ sweeps -------------------------------- *)

RECURSIVE OverwriteArgs(_, _, _, _)
\* adjoint[argId] = partial * lhsAdjoint: the entries overwrite
OverwriteArgs(adj, args, k, lhsAdjoint) ==
  IF k > Len(args) THEN adj
  ELSE OverwriteArgs(
         [adj EXCEPT ![args[k].id + 1] = args[k].jac * lhsAdjoint],
         args, k + 1, lhsAdjoint)

RECURSIVE AccumulateArgs(_, _, _, _)
\* adjoint[argId] += partial * lhsAdjoint, for the entries k .. Len(args)
AccumulateArgs(adj, args, k, lhsAdjoint) ==
  IF k > Len(args) THEN adj
  ELSE AccumulateArgs(
         [adj EXCEPT ![args[k].id + 1] = @ + args[k].jac * lhsAdjoint],
         args, k + 1, lhsAdjoint)

\* The reverse evaluation of one statement: read adjoint[lhs], distribute
\* it over the Jacobian entries, and clear adjoint[lhs] when identifiers
\* are not reused.
ReverseStmt(pol, adj, st) ==
  LET lhsAdjoint == Slot(adj, st.lhs)
      spread == AccumulateArgs(adj, st.args, 1, lhsAdjoint)
  IN  IF pol = "Linear" THEN [spread EXCEPT ![st.lhs + 1] = 0] ELSE spread

RECURSIVE TangentSum(_, _, _)
\* sum over the entries k .. Len(args) of partial * tangent[argId]
TangentSum(adj, args, k) ==
  IF k > Len(args) THEN 0
  ELSE args[k].jac * Slot(adj, args[k].id) + TangentSum(adj, args, k + 1)

\* The forward evaluation of one statement.
ForwardStmt(adj, st) ==
  [adj EXCEPT ![st.lhs + 1] = TangentSum(adj, st.args, 1)]

RECURSIVE ReverseRange(_, _, _, _, _)
\* statements end, end - 1, .. start + 1, in that order
ReverseRange(pol, adj, log, start, end) ==
  IF end <= start THEN adj
  ELSE ReverseRange(pol, ReverseStmt(pol, adj, log[end]), log, start, end - 1)

RECURSIVE ForwardRange(_, _, _, _)
\* statements start + 1, .. end, in that order
ForwardRange(adj, log, start, end) ==
  IF end <= start THEN adj
  ELSE ForwardRange(ForwardStmt(adj, log[start + 1]), log, start + 1, end)

\* A sweep that takes start > end for the range [end, start).
SweepAnyOrder(forward, pol, adj, log, start, end) ==
  LET lo == IF start <= end THEN start ELSE end
      hi == IF start <= end THEN end ELSE start
  IN  [failed |-> FALSE, n |-> hi - lo,
       adj |-> IF forward THEN ForwardRange(adj, log, lo, hi)
               ELSE ReverseRange(pol, adj, log, lo, hi)]

\* The sweep over the half-open range [start, end): start > end is a
\* precondition violation and evaluates nothing.
Sweep(forward, pol, adj, log, start, end) ==
  IF start > end
  THEN [failed |-> TRUE, n |-> 0, adj |-> adj]
  ELSE [failed |-> FALSE, n |-> end - start,
        adj |-> IF forward THEN ForwardRange(adj, log, start, end)
                ELSE ReverseRange(pol, adj, log, start, end)]

(* ------------ external function: matrix-matrix multiplication --------- *)

\* codi::Config::LowLevelFunctionTokenInvalid
LowLevelFunctionTokenInvalid == 0

\* Eigen::StorageOptions of the template parameter eigenStore
StorageOptions == {"RowMajor", "ColMajor"}

RECURSIVE SumSeq(_)
SumSeq(s) == IF s = <<>> THEN 0 ELSE Head(s) + SumSeq(Tail(s))

\* mapEigen<eigenStore>(a, rows, cols): the matrix laid over the array a
mapEigen(eigenStore, a, rows, cols) ==
  [i \in 1 .. rows, j \in 1 .. cols |->
     IF eigenStore = "RowMajor" THEN a[(i - 1) * cols + j]
     ELSE a[(j - 1) * rows + i]]

\* The array under a rows x cols matrix M.
Flat(eigenStore, M, rows, cols) ==
  [p \in 1 .. rows * cols |->
     IF eigenStore = "RowMajor"
     THEN M[((p - 1) \div cols) + 1, ((p - 1) % cols) + 1]
     ELSE M[((p - 1) % rows) + 1, ((p - 1) \div rows) + 1]]

\* X * Y for an n x k matrix X and a k x m matrix Y
Times(X, Y, n, k, m) ==
  [i \in 1 .. n, j \in 1 .. m |->
     SumSeq([l \in 1 .. k |-> X[i, l] * Y[l, j]])]

\* X + Y for n x m matrices
Plus(X, Y, n, m) == [i \in 1 .. n, j \in 1 .. m |-> X[i, j] + Y[i, j]]

\* X.transpose() for a rows x cols matrix X
Transpose(X, rows, cols) == [j \in 1 .. cols, i \in 1 .. rows |-> X[i, j]]

Zeros(len) == [p \in 1 .. len |-> 0]

Max2(a, b) == IF a >= b THEN a ELSE b

\* LLFH::setActivity(activityStore, arg, active): bit arg of the mask
setActivity(activityStore, arg, active) ==
  IF active THEN activityStore + 2 ^ arg ELSE activityStore

\* LLFH::getActivity(activityStore, arg)
getActivity(activityStore, arg) == (activityStore \div (2 ^ arg)) % 2 = 1

\* Trait::isActive(ids, size): an element carries a non-reserved identifier
isActive(ids) == \E p \in 1 .. Len(ids) : ids[p] # 0

\* The entry registerOnTape registers: Entry(reverse, forward, nullptr, del)
Entry ==
  [reverse |-> "reverse", forward |-> "forward", primal |-> "nullptr",
   del |-> "del"]

\* tape.registerLowLevelFunction(entry): the entry is added to the registry
\* and its position is its token.
registerLowLevelFunction(reg, entry) ==
  [registry |-> Append(reg, entry), token |-> Len(reg) + 1]

\* registerOnTape() without the test of ID
registerOnTapeAlways(id, reg) ==
  LET r == registerLowLevelFunction(reg, Entry)
  IN  [ID |-> r.token, registry |-> r.registry]

\* registerOnTape() that registers nothing
registerOnTapeSkipped(id, reg) == [ID |-> id, registry |-> reg]

\* registerOnTape()
registerOnTape(id, reg) ==
  IF LowLevelFunctionTokenInvalid = id
  THEN LET r == registerLowLevelFunction(reg, Entry)
       IN  [ID |-> r.token, registry |-> r.registry]
  ELSE [ID |-> id, registry |-> reg]

\* LLFH::createStoreActions(tapeActive, isInput, isOutput, isInputActive,
\* primalRequired): what a count or store call is told to do.
createStoreActions(tapeActive, isInput, isOutput, isInputActive, primalRequired) ==
  [tapeActive |-> tapeActive, isInput |-> isInput, isOutput |-> isOutput,
   isInputActive |-> isInputActive, primalRequired |-> primalRequired]

\* LLFH::createRestoreActions(isInput, isOutput, isInputActive,
\* primalRequired): what a restore call is told to do; a record exists
\* only for a store made with the tape active.
createRestoreActions(isInput, isOutput, isInputActive, primalRequired) ==
  [tapeActive |-> TRUE, isInput |-> isInput, isOutput |-> isOutput,
   isInputActive |-> isInputActive, primalRequired |-> primalRequired]

\* The last argument of the calls of PassiveStoreTrait for n, k, m (true:
\* the scalar is kept in the record) and of the calls for the activity
\* mask, which take none.
PassiveActions == [storeRequired |-> TRUE]

\* One field of a segment of a record: the name of the argument, the
\* number of elements it was stored with, for a scalar or the activity
\* mask its value, and the actions the call was given.
Field(field, len, value, actions) ==
  [field |-> field, len |-> len, value |-> value, actions |-> actions]

\* Type::Identifier is int and Type::Real is double (the default tape of
\* ActiveType); the activity mask of two arguments and a dimension stored
\* as uint8_t take one byte.
SizeofIdentifier == 4
SizeofReal == 8
SizeofActivity == 1
SizeofPassive == 1

\* The bytes of the fixed segment a call for a field takes: the activity
\* mask and the scalars n, k, m live there, the arrays do not, whatever
\* the length the call is passed.
FixedBytes(f) ==
  IF f.field = "activity" THEN SizeofActivity
  ELSE IF f.field \in {"n", "k", "m"}
       THEN (IF f.actions.storeRequired THEN f.len * SizeofPassive ELSE 0)
       ELSE 0

\* The bytes of the dynamic segment a call for a field takes: for an
\* array, per element, the identifier of an active input or of an output
\* and the primal value of an input another argument's derivative needs,
\* unless the tape keeps the primal values of active inputs itself; and
\* the old primal value of an output when such a tape reuses identifiers.
DynamicBytes(f, hasPrimalValues, linearIndexHandling) ==
  IF f.field \in {"A", "B", "R"} /\ f.actions.tapeActive
  THEN f.len
       * ((IF (f.actions.isInput /\ f.actions.isInputActive)
              \/ f.actions.isOutput
           THEN SizeofIdentifier ELSE 0)
          + (IF /\ f.actions.isInput
                /\ f.actions.primalRequired
                /\ (~hasPrimalValues \/ ~f.actions.isInputActive)
             THEN SizeofReal ELSE 0)
          + (IF f.actions.isOutput /\ hasPrimalValues /\ ~linearIndexHandling
             THEN SizeofReal ELSE 0))
  ELSE 0

RECURSIVE SumFixed(_)
SumFixed(fields) ==
  IF fields = <<>> THEN 0
  ELSE FixedBytes(Head(fields)) + SumFixed(Tail(fields))

RECURSIVE SumDynamic(_, _, _)
SumDynamic(fields, hasPrimalValues, linearIndexHandling) ==
  IF fields = <<>> THEN 0
  ELSE DynamicBytes(Head(fields), hasPrimalValues, linearIndexHandling)
       + SumDynamic(Tail(fields), hasPrimalValues, linearIndexHandling)

\* store, "Count data size": the six Trait::countSize calls
Counted(active, active_A, active_B, n, k, m) ==
  << Field("A", n * k, 0, createStoreActions(active, TRUE, FALSE, active_A, active_B)),
     Field("B", k * m, 0, createStoreActions(active, TRUE, FALSE, active_B, active_A)),
     Field("R", n * m, 0, createStoreActions(active, FALSE, TRUE, FALSE, TRUE)),
     Field("n", 1, n, PassiveActions), Field("k", 1, k, PassiveActions),
     Field("m", 1, m, PassiveActions) >>

\* store, "Count data size", with the activity mask counted once
sizeFixedOnce(counted) == SizeofActivity + SumFixed(counted)

\* store, "Count data size": sizeFixed starts with twice the size of the
\* activity mask and every countSize call adds to it.
sizeFixed(counted) == 2 * SizeofActivity + SumFixed(counted)

\* store, "Count data size": sizeDynamic starts with 0.
sizeDynamic(counted, hasPrimalValues, linearIndexHandling) ==
  0 + SumDynamic(counted, hasPrimalValues, linearIndexHandling)

\* store, "Store data": the fields written to the fixed segment, by
\* storeActivity first and last and by the six Trait::store calls between.
StoredFixed(activityStore, active, active_A, active_B, n, k, m) ==
  << Field("activity", 1, activityStore, PassiveActions),
     Field("A", n * k, 0, createStoreActions(active, TRUE, FALSE, active_A, active_B)),
     Field("B", k * m, 0, createStoreActions(active, TRUE, FALSE, active_B, active_A)),
     Field("R", n * m, 0, createStoreActions(active, FALSE, TRUE, FALSE, TRUE)),
     Field("n", 1, n, PassiveActions), Field("k", 1, k, PassiveActions),
     Field("m", 1, m, PassiveActions),
     Field("activity", 1, activityStore, PassiveActions) >>

\* store, "Store data": the fields the six Trait::store calls write to the
\* dynamic segment.
StoredDynamic(active, active_A, active_B, n, k, m) ==
  << Field("A", n * k, 0, createStoreActions(active, TRUE, FALSE, active_A, active_B)),
     Field("B", k * m, 0, createStoreActions(active, TRUE, FALSE, active_B, active_A)),
     Field("R", n * m, 0, createStoreActions(active, FALSE, TRUE, FALSE, TRUE)),
     Field("n", 1, 0, PassiveActions), Field("k", 1, 0, PassiveActions),
     Field("m", 1, 0, PassiveActions) >>

\* A restore call of a replay routine: the field it restores, the
\* variables whose product is the length it passes (none: the length 1)
\* and the arguments of createRestoreActions as they are written (none:
\* the call of a scalar or of the activity mask).
RestoreCall(field, dims, actions) ==
  [field |-> field, dims |-> dims, actions |-> actions]

restoreActivity == RestoreCall("activity", <<>>, <<>>)
restore_A == RestoreCall("A", <<"n", "k">>, <<"true", "false", "active_A", "active_B">>)
restore_B == RestoreCall("B", <<"k", "m">>, <<"true", "false", "active_B", "active_A">>)

\* The restore call of R with the length n * k
restore_R_as_A == RestoreCall("R", <<"n", "k">>, <<"false", "true", "false", "true">>)

restore_R == RestoreCall("R", <<"n", "m">>, <<"false", "true", "false", "true">>)
restore_n == RestoreCall("n", <<>>, <<>>)
restore_k == RestoreCall("k", <<>>, <<>>)
restore_m == RestoreCall("m", <<>>, <<>>)

\* forward, "Restore fixed data", with B restored before A
forwardFixedSwapped ==
  << restoreActivity, restore_B, restore_A, restore_R,
     restore_n, restore_k, restore_m, restoreActivity >>

\* forward, "Restore fixed data"
forwardFixed ==
  << restoreActivity, restore_A, restore_B, restore_R,
     restore_n, restore_k, restore_m, restoreActivity >>

\* forward, "Restore dynamic data"
forwardDynamic ==
  << restore_A, restore_B, restore_R, restore_n, restore_k, restore_m >>

\* reverse, "Restore fixed data", with k restored before m
reverseFixedSwapped ==
  << restoreActivity, restore_k, restore_m, restore_n,
     restore_R, restore_B, restore_A, restoreActivity >>

\* reverse, "Restore fixed data"
reverseFixed ==
  << restoreActivity, restore_m, restore_k, restore_n,
     restore_R, restore_B, restore_A, restoreActivity >>

\* reverse, "Restore dynamic data"
reverseDynamic ==
  << restore_m, restore_k, restore_n, restore_R, restore_B, restore_A >>

\* del, "Restore fixed data", in the order of store
delFixedStoreOrder ==
  << restoreActivity, restore_A, restore_B, restore_R,
     restore_n, restore_k, restore_m, restoreActivity >>

\* del, "Restore fixed data"
delFixed ==
  << restoreActivity, restore_m, restore_k, restore_n,
     restore_R, restore_B, restore_A, restoreActivity >>

\* del, "Restore dynamic data"
delDynamic ==
  << restore_m, restore_k, restore_n, restore_R, restore_B, restore_A >>

\* The local variables of a replay routine a restore call sets: n, k, m and
\* activityStore, declared with = {}.
NoLocals == [n |-> 0, k |-> 0, m |-> 0, activity |-> 0]

\* An argument of createRestoreActions as it is when the call is made:
\* active_A and active_B are set from the activity mask first restored.
ActionArgument(a, locals) ==
  IF a = "active_A" THEN getActivity(locals.activity, 0)
  ELSE IF a = "active_B" THEN getActivity(locals.activity, 1)
  ELSE a = "true"

\* The actions a restore call passes.
PassedActions(c, locals) ==
  IF c.actions = <<>> THEN PassiveActions
  ELSE createRestoreActions(ActionArgument(c.actions[1], locals),
                            ActionArgument(c.actions[2], locals),
                            ActionArgument(c.actions[3], locals),
                            ActionArgument(c.actions[4], locals))

\* The value store wrote for a field of a segment.
StoredValue(segment, field) ==
  segment[CHOOSE p \in 1 .. Len(segment) : segment[p].field = field].value

\* The length a restore call passes: the product of its dimensions, as
\* they are when the call is made.
PassedLength(c, locals) ==
  IF c.dims = <<>> THEN 1 ELSE locals[c.dims[1]] * locals[c.dims[2]]

RECURSIVE Restore(_, _, _, _, _, _)
\* The restore calls p .. Len(calls) on a segment: each call is passed the
\* length computed from the local variables as they are, and a call on the
\* fixed segment for n, k, m or the activity mask sets that variable to the
\* value store wrote.
Restore(calls, p, segment, isFixed, locals, trace) ==
  IF p > Len(calls) THEN [locals |-> locals, trace |-> trace]
  ELSE LET c == calls[p]
           value == StoredValue(segment, c.field)
           set == IF isFixed /\ c.dims = <<>>
                  THEN [locals EXCEPT ![c.field] = value]
                  ELSE locals
       IN  Restore(calls, p + 1, segment, isFixed, set,
                   Append(trace, Field(c.field, PassedLength(c, locals), value,
                                       PassedActions(c, locals))))

\* "Restore fixed data" and then "Restore dynamic data" of a replay routine
RestoreRecord(rec, fixedCalls, dynamicCalls) ==
  LET f == Restore(fixedCalls, 1, rec.fixed, TRUE, NoLocals, <<>>)
      d == Restore(dynamicCalls, 1, rec.dynamic, FALSE, f.locals, <<>>)
  IN  [n |-> f.locals.n, k |-> f.locals.k, m |-> f.locals.m,
       active_A |-> getActivity(f.locals.activity, 0),
       active_B |-> getActivity(f.locals.activity, 1),
       fixed |-> f.trace, dynamic |-> d.trace]

\* The names of the fields of a segment or of a sequence of restore calls.
Names(fields) == [p \in 1 .. Len(fields) |-> fields[p].field]

Mirror(s) == [p \in 1 .. Len(s) |-> s[Len(s) + 1 - p]]

\* callPrimal with A_i_in.any() for A_i_in.rowwise().any() and
\* B_i_in.any() for B_i_in.colwise().any()
callPrimalAny(eigenStore, active, A, active_A, A_i_in, B, active_B, B_i_in, n, k, m) ==
  LET marker == [i \in 1 .. n, j \in 1 .. m |->
                   (IF active_A /\ (\E p \in 1 .. n * k : A_i_in[p] # 0)
                    THEN 1 ELSE 0)
                   + (IF active_B /\ (\E p \in 1 .. k * m : B_i_in[p] # 0)
                      THEN 1 ELSE 0)]
  IN  [R |-> Flat(eigenStore,
                  Times(mapEigen(eigenStore, A, n, k),
                        mapEigen(eigenStore, B, k, m), n, k, m), n, m),
       R_i_out |-> IF active THEN Flat(eigenStore, marker, n, m)
                   ELSE Zeros(n * m)]

\* callPrimal: R = A * B and, on the active path, the activity marker of
\* every element of R: the number of active arguments it depends on.
callPrimal(eigenStore, active, A, active_A, A_i_in, B, active_B, B_i_in, n, k, m) ==
  LET rowAny == [i \in 1 .. n |->
                   \E l \in 1 .. k : mapEigen(eigenStore, A_i_in, n, k)[i, l] # 0]
      colAny == [j \in 1 .. m |->
                   \E l \in 1 .. k : mapEigen(eigenStore, B_i_in, k, m)[l, j] # 0]
      marker == [i \in 1 .. n, j \in 1 .. m |->
                   (IF active_A /\ rowAny[i] THEN 1 ELSE 0)
                   + (IF active_B /\ colAny[j] THEN 1 ELSE 0)]
  IN  [R |-> Flat(eigenStore,
                  Times(mapEigen(eigenStore, A, n, k),
                        mapEigen(eigenStore, B, k, m), n, k, m), n, m),
       R_i_out |-> IF active THEN Flat(eigenStore, marker, n, m)
                   ELSE Zeros(n * m)]

\* callForward with R_d_out = A * B_d_in for R_d_out += A * B_d_in
callForwardOverwrite(eigenStore, A, active_A, A_d_in, B, active_B, B_d_in, R_d_out, n, k, m) ==
  LET mA == mapEigen(eigenStore, A, n, k)
      mB == mapEigen(eigenStore, B, k, m)
      d0 == mapEigen(eigenStore, R_d_out, n, m)
      d1 == IF active_A
            THEN Plus(d0, Times(mapEigen(eigenStore, A_d_in, n, k), mB, n, k, m),
                      n, m)
            ELSE d0
      d2 == IF active_B
            THEN Times(mA, mapEigen(eigenStore, B_d_in, k, m), n, k, m)
            ELSE d1
  IN  [R |-> Flat(eigenStore, Times(mA, mB, n, k, m), n, m),
       R_d_out |-> Flat(eigenStore, d2, n, m)]

\* callForward: R_d_out += A_d_in * B if A is active, R_d_out += A * B_d_in
\* if B is active, and R = A * B.
callForward(eigenStore, A, active_A, A_d_in, B, active_B, B_d_in, R_d_out, n, k, m) ==
  LET mA == mapEigen(eigenStore, A, n, k)
      mB == mapEigen(eigenStore, B, k, m)
      d0 == mapEigen(eigenStore, R_d_out, n, m)
      d1 == IF active_A
            THEN Plus(d0, Times(mapEigen(eigenStore, A_d_in, n, k), mB, n, k, m),
                      n, m)
            ELSE d0
      d2 == IF active_B
            THEN Plus(d1, Times(mA, mapEigen(eigenStore, B_d_in, k, m), n, k, m),
                      n, m)
            ELSE d1
  IN  [R |-> Flat(eigenStore, Times(mA, mB, n, k, m), n, m),
       R_d_out |-> Flat(eigenStore, d2, n, m)]

\* callReverse with A_b_in += R_b_out * B, B not transposed
callReverseNoTranspose(eigenStore, A, active_A, A_b_in, B, active_B, B_b_in, R_b_out, n, k, m) ==
  LET mA == mapEigen(eigenStore, A, n, k)
      mB == mapEigen(eigenStore, B, k, m)
      b == mapEigen(eigenStore, R_b_out, n, m)
  IN  [A_b_in |->
         IF active_A /\ k = m
         THEN Flat(eigenStore,
                   Plus(mapEigen(eigenStore, A_b_in, n, k),
                        Times(b, mB, n, m, k), n, k), n, k)
         ELSE A_b_in,
       B_b_in |->
         IF active_B
         THEN Flat(eigenStore,
                   Plus(mapEigen(eigenStore, B_b_in, k, m),
                        Times(Transpose(mA, n, k), b, k, n, m), k, m), k, m)
         ELSE B_b_in]

\* callReverse: A_b_in += R_b_out * B.transpose() if A is active and
\* B_b_in += A.transpose() * R_b_out if B is active.
callReverse(eigenStore, A, active_A, A_b_in, B, active_B, B_b_in, R_b_out, n, k, m) ==
  LET mA == mapEigen(eigenStore, A, n, k)
      mB == mapEigen(eigenStore, B, k, m)
      b == mapEigen(eigenStore, R_b_out, n, m)
  IN  [A_b_in |->
         IF active_A
         THEN Flat(eigenStore,
                   Plus(mapEigen(eigenStore, A_b_in, n, k),
                        Times(b, Transpose(mB, k, m), n, m, k), n, k), n, k)
         ELSE A_b_in,
       B_b_in |->
         IF active_B
         THEN Flat(eigenStore,
                   Plus(mapEigen(eigenStore, B_b_in, k, m),
                        Times(Transpose(mA, n, k), b, k, n, m), k, m), k, m)
         ELSE B_b_in]

\* Trait::getGradients(adjoints, size, reset, identifiers, gradients): the
\* gradients are read by identifier from the vector.
getGradients(adj, reset, identifiers) ==
  [p \in 1 .. Len(identifiers) |-> Slot(adj, identifiers[p])]

RECURSIVE setGradientsFrom(_, _, _, _, _)
setGradientsFrom(adj, update, identifiers, gradients, p) ==
  IF p > Len(identifiers) THEN adj
  ELSE setGradientsFrom(
         [adj EXCEPT ![identifiers[p] + 1] =
            IF update THEN @ + gradients[p] ELSE gradients[p]],
         update, identifiers, gradients, p + 1)

\* Trait::setGradients(adjoints, size, update, identifiers, gradients): the
\* gradients are written by identifier into the vector, added to what is
\* there when update is set.
setGradients(adj, update, identifiers, gradients) ==
  setGradientsFrom(adj, update, identifiers, gradients, 1)

\* Trait_R::setExternalFunctionOutput: on the active path every element of
\* R with a marker gets an identifier, the others the reserved one.  A
\* manager that reuses identifiers leaves an element the identifier it
\* holds; otherwise the identifier is a new one.
setExternalFunctionOutput(active, R_identifiers, R_i_out, lci, linear) ==
  LET kept(p) == ~linear /\ R_identifiers[p] # 0
  IN  [p \in 1 .. Len(R_i_out) |->
         IF active /\ R_i_out[p] # 0
         THEN IF kept(p) THEN R_identifiers[p]
              ELSE lci + Cardinality({q \in 1 .. p :
                                        R_i_out[q] # 0 /\ ~kept(q)})
         ELSE 0]

\* Trait::getPrimalsFromVector(adjoints, size, identifiers, primals): the
\* primal values are read by identifier from the vector of the tape.
getPrimalsFromVector(prim, identifiers, primals) ==
  [p \in 1 .. Len(identifiers) |->
     IF identifiers[p] # 0 /\ identifiers[p] <= Len(prim)
     THEN prim[identifiers[p]] ELSE primals[p]]

RECURSIVE setPrimalsFrom(_, _, _, _)
setPrimalsFrom(prim, identifiers, primals, p) ==
  IF p > Len(identifiers) THEN prim
  ELSE setPrimalsFrom(
         IF identifiers[p] # 0
         THEN [i \in 1 .. Max2(Len(prim), identifiers[p]) |->
                 IF i = identifiers[p] THEN primals[p]
                 ELSE IF i <= Len(prim) THEN prim[i] ELSE 0]
         ELSE prim,
         identifiers, primals, p + 1)

\* Trait::setPrimalsIntoVector(adjoints, size, identifiers, primals): the
\* primal values are written by identifier into the vector of the tape.
setPrimalsIntoVector(prim, identifiers, primals) ==
  setPrimalsFrom(prim, identifiers, primals, 1)

\* The largest identifier created once ids have been issued.
LargestOf(ids, lci) ==
  IF \E p \in 1 .. Len(ids) : ids[p] > lci
  THEN CHOOSE x \in {ids[p] : p \in 1 .. Len(ids)} :
         \A q \in 1 .. Len(ids) : ids[q] <= x
  ELSE lci

\* What a Trait::store call keeps of the primal values of an input: the
\* values when the derivative of the other argument needs them.
StoredPrimal(values, required) ==
  IF required THEN values ELSE Zeros(Len(values))

\* What Trait_R::store and setExternalFunctionOutput keep of the primal
\* values the identifiers of R had: the values, on a tape with primal
\* values whose identifiers are reused.
StoredOldPrimal(values, hasPrimalValues, linear) ==
  IF hasPrimalValues /\ ~linear THEN values ELSE Zeros(Len(values))

\* What a Trait::store call keeps of the identifiers of an input.
StoredIdentifiers(ids, inputActive) ==
  IF inputActive THEN ids ELSE Zeros(Len(ids))

\* The arguments of store: n, k, m, the values and the identifiers of the
\* elements of the arrays A and B, and the identifiers the elements of R
\* hold when store is called.
NoArgs ==
  [n |-> 0, k |-> 0, m |-> 0, A |-> <<>>, B |-> <<>>, idA |-> <<>>,
   idB |-> <<>>, idR |-> <<>>]

\* last: the last call of store or of a replay routine and what it did: rec
\* is the position of the record replayed, active whether store took the
\* active path, fixed and dynamic the restore calls made on the segments
\* (field, length passed, value restored), args the arguments of store,
\* gets and sets the arguments
\* getGradients and setGradients were called for, before the adjoint
\* vector the replay was given, R and idR the primal result and the
\* identifiers of the output, R_i_out the activity markers callPrimal
\* computed, calls the other functions called, in order; of a replay on a
\* tape with primal values, steps the accesses to the primal values and
\* the derivative evaluation, in order, and inputs the values of A and B
\* the derivative was evaluated with.
NoReplay ==
  [op |-> "none", rec |-> 0, active |-> FALSE, args |-> NoArgs,
   fixed |-> <<>>,
   dynamic |-> <<>>, gets |-> {}, sets |-> {}, before |-> <<>>,
   R |-> <<>>, R_i_out |-> <<>>, idR |-> <<>>, calls |-> <<>>,
   steps |-> <<>>, inputs |-> [A |-> <<>>, B |-> <<>>]]

\* store with allocator.free() inside the active branch
storeCallsFreeWhenActive(active) ==
  (IF active THEN <<"registerOnTape", "pushLowLevelFunction">> ELSE <<>>)
  \o <<"callPrimal", "setExternalFunctionOutput">>
  \o (IF active THEN <<"free">> ELSE <<>>)

\* store: the functions called after "Detect activity", the calls of the
\* traits left out: registerOnTape and pushLowLevelFunction on the active
\* path, then on both paths callPrimal, setExternalFunctionOutput and
\* allocator.free().
storeCalls(active) ==
  (IF active THEN <<"registerOnTape", "pushLowLevelFunction">> ELSE <<>>)
  \o <<"callPrimal", "setExternalFunctionOutput", "free">>

\* forward, reverse and del: the functions called after the restore calls,
\* the calls of the traits left out.
forwardCalls == <<"callForward", "free">>
reverseCalls == <<"callReverse", "free">>
delCalls == <<"free">>

\* What the array R_store.value() of forward may hold before callForward
\* writes it: the restore calls create it and give it no value.
StaleValues == {-1, 0}

StaleArrays(len, hasPrimalValues) ==
  IF hasPrimalValues THEN [1 .. len -> StaleValues] ELSE {Zeros(len)}

\* forward, lines 74-103: the accesses to the primal values of the tape
\* and the call of callForward, in the order they are made.
forwardSteps(hasPrimalValues, linear, active_A, active_B) ==
  (IF hasPrimalValues /\ active_A /\ active_B THEN <<"getPrimals A">> ELSE <<>>)
  \o (IF hasPrimalValues /\ active_B /\ active_A THEN <<"getPrimals B">> ELSE <<>>)
  \o (IF hasPrimalValues /\ ~linear THEN <<"getOldPrimals R">> ELSE <<>>)
  \o (IF hasPrimalValues THEN <<"setPrimals R">> ELSE <<>>)
  \o <<"callForward">>

\* reverse with the primal values of the inputs read before the old primal
\* values of R are written back
reverseStepsInputsFirst(hasPrimalValues, linear, active_A, active_B) ==
  (IF hasPrimalValues /\ active_A /\ active_B THEN <<"getPrimals A">> ELSE <<>>)
  \o (IF hasPrimalValues /\ active_B /\ active_A THEN <<"getPrimals B">> ELSE <<>>)
  \o (IF hasPrimalValues /\ ~linear THEN <<"setOldPrimals R">> ELSE <<>>)
  \o <<"callReverse">>

\* reverse, lines 181-201: the accesses to the primal values of the tape
\* and the call of callReverse, in the order they are made.
reverseSteps(hasPrimalValues, linear, active_A, active_B) ==
  (IF hasPrimalValues /\ ~linear THEN <<"setOldPrimals R">> ELSE <<>>)
  \o (IF hasPrimalValues /\ active_A /\ active_B THEN <<"getPrimals A">> ELSE <<>>)
  \o (IF hasPrimalValues /\ active_B /\ active_A THEN <<"getPrimals B">> ELSE <<>>)
  \o <<"callReverse">>

RECURSIVE Run(_, _, _, _, _, _, _)
\* The steps p .. Len(steps) of a replay of the record rec, restored as s,
\* with the gradients g read from the vector: st holds the primal values
\* of the tape, the arrays A_store.value(), B_store.value(),
\* R_store.value() and R_store.oldPrimal() and what the derivative
\* evaluation returned.
Run(steps, p, rec, s, g, eigenStore, st) ==
  IF p > Len(steps) THEN st
  ELSE LET step == steps[p]
           next ==
             IF step = "getPrimals A"
             THEN [st EXCEPT !.A = getPrimalsFromVector(st.primal, rec.idA, st.A)]
             ELSE IF step = "getPrimals B"
             THEN [st EXCEPT !.B = getPrimalsFromVector(st.primal, rec.idB, st.B)]
             ELSE IF step = "getOldPrimals R"
             THEN [st EXCEPT !.oldPrimal =
                     getPrimalsFromVector(st.primal, rec.idR, st.oldPrimal)]
             ELSE IF step = "setPrimals R"
             THEN [st EXCEPT !.primal =
                     setPrimalsIntoVector(st.primal, rec.idR, st.R)]
             ELSE IF step = "setOldPrimals R"
             THEN [st EXCEPT !.primal =
                     setPrimalsIntoVector(st.primal, rec.idR, st.oldPrimal)]
             ELSE IF step = "callForward"
             THEN LET out == callForward(eigenStore, st.A, s.active_A, g.A,
                                         st.B, s.active_B, g.B,
                                         Zeros(s.n * s.m), s.n, s.k, s.m)
                  IN  [st EXCEPT !.R = out.R, !.R_d_out = out.R_d_out]
             ELSE LET out == callReverse(eigenStore, st.A, s.active_A,
                                         Zeros(s.n * s.k), st.B, s.active_B,
                                         Zeros(s.k * s.m), g.R, s.n, s.k, s.m)
                  IN  [st EXCEPT !.A_b_in = out.A_b_in, !.B_b_in = out.B_b_in]
       IN  Run(steps, p + 1, rec, s, g, eigenStore, next)

\* The arrays of a replay once the record is restored: the primal values
\* of A and B the record holds, R as it is created, the old primal values
\* of R the record holds, and no derivative yet.
Restored(rec, prim, R) ==
  [primal |-> prim, A |-> rec.A, B |-> rec.B, R |-> R,
   oldPrimal |-> rec.oldPrimal, R_d_out |-> <<>>, A_b_in |-> <<>>,
   B_b_in |-> <<>>]

\* store, "Detect activity", with the active path taken always
storeActiveAlways(active_A, active_B) == TRUE

\* store, "Detect activity": active = active_A | active_B
storeActive(active_A, active_B) == active_A \/ active_B

\* store(A, B, R, n, k, m); in holds the arrays A and B (values and
\* identifiers of their elements), the identifiers of R and n, k, m.  On a
\* tape with primal values setExternalFunctionOutput writes the values of
\* R to the identifiers it gives R.
Store(in) ==
  LET eigenStore == mats.eigenStore
      active_A == isActive(in.idA)
      active_B == isActive(in.idB)
      active == storeActive(active_A, active_B)
      reg == registerOnTape(ID, registry)
      activityStore == setActivity(setActivity(0, 0, active_A), 1, active_B)
      counted == Counted(active, active_A, active_B, in.n, in.k, in.m)
      A_store == [value |-> in.A, identifierIn |-> in.idA]
      B_store == [value |-> in.B, identifierIn |-> in.idB]
      p == callPrimal(eigenStore, active, A_store.value, active_A,
                      A_store.identifierIn, B_store.value, active_B,
                      B_store.identifierIn, in.n, in.k, in.m)
      linear == policy = "Linear"
      idR == setExternalFunctionOutput(active, in.idR, p.R_i_out, largest,
                                       linear)
      oldPrimal == getPrimalsFromVector(primal, idR, Zeros(Len(idR)))
      rec == [token |-> reg.ID, counted |-> counted,
              sizeFixed |-> sizeFixed(counted),
              sizeDynamic |-> sizeDynamic(counted, mats.hasPrimalValues,
                                          policy = "Linear"),
              fixed |-> StoredFixed(activityStore, active, active_A, active_B,
                                    in.n, in.k, in.m),
              dynamic |-> StoredDynamic(active, active_A, active_B,
                                        in.n, in.k, in.m),
              A |-> StoredPrimal(in.A, active_B
                                       /\ (~mats.hasPrimalValues \/ ~active_A)),
              B |-> StoredPrimal(in.B, active_A
                                       /\ (~mats.hasPrimalValues \/ ~active_B)),
              oldPrimal |-> StoredOldPrimal(oldPrimal, mats.hasPrimalValues,
                                            linear),
              idA |-> StoredIdentifiers(in.idA, active_A),
              idB |-> StoredIdentifiers(in.idB, active_B),
              idR |-> idR]
  IN  /\ IF active
         THEN /\ ID' = reg.ID
              /\ registry' = reg.registry
              /\ lowLevel' = Append(lowLevel, rec)
         ELSE UNCHANGED <<ID, registry, lowLevel>>
      /\ largest' = LargestOf(idR, largest)
      /\ primal' = IF mats.hasPrimalValues
                   THEN setPrimalsIntoVector(primal, idR, p.R)
                   ELSE primal
      /\ last' = [NoReplay EXCEPT
                    !.op = "store", !.active = active, !.args = in,
                    !.R = p.R, !.R_i_out = p.R_i_out, !.idR = idR,
                    !.calls = storeCalls(active)]
      /\ UNCHANGED <<policy, adjoints, stmts, call, pc, mats>>

\* forward: the arguments getGradients is called for
forwardGets(active_A, active_B) ==
  (IF active_A THEN {"A"} ELSE {}) \cup (IF active_B THEN {"B"} ELSE {})

\* reverse with setGradients called for A and B, whatever their activity
reverseSetsAll(active_A, active_B) == {"A", "B"}

\* reverse: the arguments setGradients is called for
reverseSets(active_A, active_B) ==
  (IF active_A THEN {"A"} ELSE {}) \cup (IF active_B THEN {"B"} ELSE {})

\* forward(tape, fixedData, dynamicData, adjoints) on record r, called by
\* evaluateForward after checkAdjointSize(largestCreatedIndex).
Forward(r) ==
  LET rec == lowLevel[r]
      v == checkAdjointSize(adjoints, largest, largest)
      s == RestoreRecord(rec, forwardFixed, forwardDynamic)
      gets == forwardGets(s.active_A, s.active_B)
      A_d == IF "A" \in gets THEN getGradients(v, FALSE, rec.idA)
             ELSE Zeros(s.n * s.k)
      B_d == IF "B" \in gets THEN getGradients(v, FALSE, rec.idB)
             ELSE Zeros(s.k * s.m)
      steps == forwardSteps(mats.hasPrimalValues, policy = "Linear",
                            s.active_A, s.active_B)
  IN  \E R \in StaleArrays(s.n * s.m, mats.hasPrimalValues) :
        LET out == Run(steps, 1, rec, s, [A |-> A_d, B |-> B_d, R |-> <<>>],
                       mats.eigenStore, Restored(rec, primal, R))
        IN  /\ adjoints' = setGradients(v, FALSE, rec.idR, out.R_d_out)
            /\ primal' = out.primal
            /\ last' = [NoReplay EXCEPT
                          !.op = "forward", !.rec = r, !.active = TRUE,
                          !.fixed = s.fixed, !.dynamic = s.dynamic,
                          !.gets = gets, !.sets = {"R"}, !.before = v,
                          !.R = out.R, !.idR = rec.idR,
                          !.calls = forwardCalls, !.steps = steps,
                          !.inputs = [A |-> out.A, B |-> out.B]]
            /\ UNCHANGED <<policy, largest, stmts, call, ID, registry,
                           lowLevel, pc, mats>>

\* reverse(tape, fixedData, dynamicData, adjoints) on record r, called by
\* evaluate after checkAdjointSize(largestCreatedIndex).
Reverse(r) ==
  LET rec == lowLevel[r]
      v == checkAdjointSize(adjoints, largest, largest)
      s == RestoreRecord(rec, reverseFixed, reverseDynamic)
      steps == reverseSteps(mats.hasPrimalValues, policy = "Linear",
                            s.active_A, s.active_B)
      R_b == getGradients(v, TRUE, rec.idR)
      out == Run(steps, 1, rec, s, [A |-> <<>>, B |-> <<>>, R |-> R_b],
                 mats.eigenStore, Restored(rec, primal, Zeros(s.n * s.m)))
      sets == reverseSets(s.active_A, s.active_B)
      a1 == IF "A" \in sets THEN setGradients(v, TRUE, rec.idA, out.A_b_in)
            ELSE v
      a2 == IF "B" \in sets THEN setGradients(a1, TRUE, rec.idB, out.B_b_in)
            ELSE a1
  IN  /\ adjoints' = a2
      /\ primal' = out.primal
      /\ last' = [NoReplay EXCEPT
                    !.op = "reverse", !.rec = r, !.active = TRUE,
                    !.fixed = s.fixed, !.dynamic = s.dynamic,
                    !.gets = {"R"}, !.sets = sets, !.before = v,
                    !.idR = rec.idR, !.calls = reverseCalls,
                    !.steps = steps, !.inputs = [A |-> out.A, B |-> out.B]]
      /\ UNCHANGED <<policy, largest, stmts, call, ID, registry, lowLevel,
                     pc, mats>>

\* del with the gradient part of reverse
DelWithGradients(r) ==
  LET rec == lowLevel[r]
      v == checkAdjointSize(adjoints, largest, largest)
      s == RestoreRecord(rec, delFixed, delDynamic)
      out == callReverse(mats.eigenStore, rec.A, s.active_A, Zeros(s.n * s.k),
                         rec.B, s.active_B, Zeros(s.k * s.m),
                         getGradients(v, TRUE, rec.idR), s.n, s.k, s.m)
      a1 == IF s.active_A THEN setGradients(v, TRUE, rec.idA, out.A_b_in)
            ELSE v
  IN  /\ adjoints' = a1
      /\ last' = [NoReplay EXCEPT
                    !.op = "del", !.rec = r, !.active = TRUE,
                    !.fixed = s.fixed, !.dynamic = s.dynamic,
                    !.before = adjoints, !.calls = delCalls]
      /\ UNCHANGED <<policy, largest, stmts, call, ID, registry, lowLevel,
                     pc, mats>>

\* del(tape, fixedData, dynamicData) on record r: the record is restored
\* and nothing else is done.
Del(r) ==
  LET rec == lowLevel[r]
      s == RestoreRecord(rec, delFixed, delDynamic)
  IN  /\ last' = [NoReplay EXCEPT
                    !.op = "del", !.rec = r, !.active = TRUE,
                    !.fixed = s.fixed, !.dynamic = s.dynamic,
                    !.before = adjoints, !.calls = delCalls]
      /\ UNCHANGED <<policy, largest, adjoints, stmts, call, ID, registry,
                     lowLevel, pc, mats>>

\* A thread that is not in store.
IdleThread == [at |-> "idle", token |-> 0, pushed |-> <<>>, stores |-> 0]

\* No multiplication is replayed; eigenStore is the template parameter of
\* the instantiation of ExtFunc_matrixMatrixMultiplication and
\* hasPrimalValues the Tape::HasPrimalValues of its tape, false for a
\* Jacobian tape.
NoMats ==
  [eigenStore |-> "RowMajor", hasPrimalValues |-> FALSE, in |-> NoArgs,
   A_d |-> <<>>, B_d |-> <<>>, R_b |-> <<>>]

\* ID is initialised to the invalid token; nothing is registered or stored.
NoExternal ==
  /\ ID = LowLevelFunctionTokenInvalid
  /\ registry = <<>>
  /\ lowLevel = <<>>
  /\ last = NoReplay
  /\ pc = [t \in Threads |-> IdleThread]

(* ----------------------------- ActiveType ------------------------------ *)

\* ActiveType: primalValue and identifier.  ActiveType() holds the value 0
\* and the passive identifier 0.
ActiveType(value, id) == [primalValue |-> value, identifier |-> id]

\* TestIncrementOperators: the points x[0] is evaluated at, and the number
\* of outputs y[0] .. y[OUT - 1] (elements 1 .. OUT of func.y).
POINTS == {-1, 0, 1}
OUT == 8

\* func has not run: at counts the statements of func executed, r is the
\* value the last increment or decrement operator yielded, mode tells what
\* the vector is seeded for.
NoFunc ==
  [x |-> ActiveType(0, 0), y |-> <<>>, r |-> ActiveType(0, 0), at |-> 0,
   copyOptimization |-> FALSE, mode |-> "record", seeded |-> 0]

(* ------------------------------ the tape ------------------------------ *)

\* JacobianBaseTape(): adjoints(1)
Init ==
  /\ policy \in {"Linear", "Reuse"}
  /\ largest = 0
  /\ adjoints = NewAdjoints(1)
  /\ stmts = <<>>
  /\ call = [NoCall EXCEPT !.size = 1]
  /\ primal = <<>>
  /\ seeds = {}
  /\ clean = TRUE
  /\ runs = <<>>
  /\ func = NoFunc
  /\ NoExternal
  /\ mats = NoMats

\* An identifier is created for a new active variable (registerInput).
CreateIdentifier ==
  /\ largest < MaxIndex
  /\ largest' = largest + 1
  /\ call' = Called("create")
  /\ UNCHANGED <<policy, adjoints, stmts>>

\* A statement lhs = f(args) is recorded: the index manager assigns lhs
\* its identifier and pushStmtData appends the statement.
Push(lhs, args) ==
  /\ largest' = LargestAfter(largest, lhs)
  /\ stmts' = Append(stmts, [lhs |-> lhs, args |-> args])
  /\ call' = Called("push")
  /\ UNCHANGED <<policy, adjoints>>

\* The recording of any elementary operation.
PushStatement ==
  /\ Len(stmts) < MaxStmts
  /\ \E lhs \in CreatedIds(policy, largest), args \in ArgLists(largest) :
       lhs <= MaxIndex /\ Push(lhs, args)

\* gradient(identifier) = value, through the mutable reference
Gradient(identifier, value) ==
  LET v == checkAdjointSize(adjoints, identifier, largest) IN
  /\ adjoints' = IF InBounds(v, identifier)
                 THEN [v EXCEPT ![identifier + 1] = value]
                 ELSE v
  /\ call' = [Called("gradient") EXCEPT !.arg = identifier,
                                        !.oob = ~InBounds(v, identifier)]
  /\ UNCHANGED <<policy, largest, stmts>>

\* gradient(identifier) const
GradientConst(identifier) ==
  LET i == constGradientIndex(adjoints, identifier) IN
  /\ \E r \in (IF InBounds(adjoints, i) THEN {Slot(adjoints, i)}
               ELSE GarbageValues) :
       call' = [Called("gradientConst") EXCEPT
                  !.arg = identifier, !.oob = ~InBounds(adjoints, i), !.ret = r]
  /\ UNCHANGED <<policy, largest, adjoints, stmts>>

\* clearAdjoints() that zeroes nothing
ClearAdjointsNoop ==
  /\ call' = Called("clearAdjoints")
  /\ UNCHANGED <<policy, largest, adjoints, stmts>>

\* clearAdjoints()
ClearAdjoints ==
  /\ adjoints' = ZeroAll(adjoints)
  /\ call' = Called("clearAdjoints")
  /\ UNCHANGED <<policy, largest, stmts>>

\* swap(other): other is a tape on which setParameter(AdjointSize, n), n >= 1,
\* was called after its construction; its statement log is empty.  The
\* index manager is the tapes' own (swapped with the tape) or one they share.
Swap ==
  /\ \E n \in 1 .. MaxSize : adjoints' = NewAdjoints(n)
  /\ largest' \in {0, largest}
  /\ stmts' = <<>>
  /\ call' = Called("swap")
  /\ UNCHANGED policy

\* deleteAdjointVector()
DeleteAdjointVector ==
  /\ adjoints' = Resize(adjoints, 1)
  /\ call' = Called("deleteAdjointVector")
  /\ UNCHANGED <<policy, largest, stmts>>

\* getParameter(TapeParameters::AdjointSize) that reports the number of
\* identifiers created, as internalAddTapeValues does
GetParameterLargest ==
  /\ call' = [Called("getParameter") EXCEPT !.ret = largest]
  /\ UNCHANGED <<policy, largest, adjoints, stmts>>

\* getParameter(TapeParameters::AdjointSize)
GetParameter ==
  /\ call' = [Called("getParameter") EXCEPT !.ret = Size(adjoints)]
  /\ UNCHANGED <<policy, largest, adjoints, stmts>>

\* setParameter(TapeParameters::AdjointSize, value)
SetParameter(value) ==
  /\ adjoints' = Resize(adjoints, value)
  /\ call' = [Called("setParameter") EXCEPT !.arg = value]
  /\ UNCHANGED <<policy, largest, stmts>>

\* Base::getParameter(parameter) and Base::setParameter(parameter, value)
\* for a parameter the tape does not support: the request is rejected with
\* an unsupported-parameter error and the tape is left as it was.
BaseParameter(op) ==
  /\ call' = [Called(op) EXCEPT !.failed = TRUE]
  /\ UNCHANGED <<policy, largest, adjoints, stmts>>

\* getParameter(parameter), parameter not AdjointSize: the default branch
GetUnsupportedParameter == BaseParameter("getParameter")

\* setParameter(parameter, value), parameter not AdjointSize: the default
\* branch
SetUnsupportedParameter == BaseParameter("setParameter")

\* The body of evaluate(start, end) and of evaluateForward(start, end):
\* checkAdjointSize(largestCreatedIndex), then the sweep on adjoints.data().
\* A sweep that leaves the vector is undefined behaviour.
EvaluateBody(op, forward, start, end) ==
  LET v == checkAdjointSize(adjoints, largest, largest)
      ok == start > end \/ SweepInBounds(v, stmts, start, end)
  IN  /\ IF ok
         THEN LET r == Sweep(forward, policy, v, stmts, start, end) IN
              /\ adjoints' = r.adj
              /\ call' = [Called(op) EXCEPT !.arg = r.n,
                                               !.failed = r.failed,
                                               !.invalid = start > end]
         ELSE /\ adjoints' \in [1 .. Len(v) -> GarbageValues]
              /\ call' = [Called(op) EXCEPT !.oob = TRUE,
                                               !.invalid = start > end]
      /\ UNCHANGED <<policy, largest, stmts>>

\* evaluate(start, end)
Evaluate(start, end) == EvaluateBody("evaluate", FALSE, start, end)

\* evaluateForward(start, end)
EvaluateForward(start, end) == EvaluateBody("evaluateForward", TRUE, start, end)

Positions == 0 .. Len(stmts)

\* The vector-management calls leave the recording's bookkeeping alone.
Idle == UNCHANGED <<recording, external>>

Next ==
  \/ CreateIdentifier /\ Idle
  \/ PushStatement /\ Idle
  \/ \E id \in 0 .. MaxSize, x \in Seeds : Gradient(id, x) /\ Idle
  \/ \E id \in 0 .. MaxSize : GradientConst(id) /\ Idle
  \/ ClearAdjoints /\ Idle
  \/ Swap /\ Idle
  \/ DeleteAdjointVector /\ Idle
  \/ GetParameter /\ Idle
  \/ \E value \in 0 .. MaxSize : SetParameter(value) /\ Idle
  \/ GetUnsupportedParameter /\ Idle
  \/ SetUnsupportedParameter /\ Idle
  \/ \E start \in Positions, end \in Positions :
       Evaluate(start, end) /\ InRange(adjoints') /\ Idle
  \/ \E start \in Positions, end \in Positions :
       EvaluateForward(start, end) /\ InRange(adjoints') /\ Idle

Spec == Init /\ [][Next]_vars

(* --------------------- record, seed and evaluate ---------------------- *)

\* The operations recorded: y = a * b and y = a + b.
Ops == {"mul", "add"}

OpValue(op, x, y) == IF op = "mul" THEN x * y ELSE x + y

\* The Jacobian entries of y = a op b: one per argument, the partial
\* derivative of y with respect to it.
OpArgs(op, a, b) ==
  IF op = "mul"
  THEN <<[id |-> a, jac |-> primal[b]], [id |-> b, jac |-> primal[a]]>>
  ELSE <<[id |-> a, jac |-> 1], [id |-> b, jac |-> 1]>>

Bounded(v) == \A i \in 1 .. Len(v) : v[i] >= -MaxAdjoint /\ v[i] <= MaxAdjoint

\* x0 is registered as the input of the recording.
RegisterInput(x) ==
  /\ largest = 0
  /\ stmts = <<>>
  /\ seeds = {}
  /\ runs = <<>>
  /\ CreateIdentifier
  /\ primal' = Append(primal, x)
  /\ UNCHANGED <<seeds, clean, runs, func>>

\* y = a op b is recorded, y a new variable.
RecordOp(op, a, b) ==
  /\ Len(stmts) < MaxOps
  /\ seeds = {}
  /\ runs = <<>>
  /\ Push(largest + 1, OpArgs(op, a, b))
  /\ primal' = Append(primal, OpValue(op, primal[a], primal[b]))
  /\ UNCHANGED <<seeds, clean, runs, func>>

\* gradient(id) = 1 on the zero vector; before the repetition of a sweep,
\* the seed of the first one.
Seed(id) ==
  /\ clean
  /\ seeds = {}
  /\ Len(runs) < 2
  /\ runs # <<>> => id \in runs[1].seeds
  /\ Gradient(id, 1)
  /\ seeds' = {id}
  /\ UNCHANGED <<primal, clean, runs, func>>

\* clearAdjoints() after a sweep
ZeroAdjoints ==
  /\ ~clean
  /\ Len(runs) < 2
  /\ ClearAdjoints
  /\ seeds' = {}
  /\ clean' = TRUE
  /\ UNCHANGED <<primal, runs, func>>

\* evaluate(start, end) on the seeded vector: a first sweep of any range,
\* and its repetition with the same range and seed.
RunReverse(start, end) ==
  /\ clean
  /\ start <= end
  /\ Len(runs) < 2
  /\ runs # <<>> => /\ start = runs[1].start
                    /\ end = runs[1].end
                    /\ seeds = runs[1].seeds
  /\ Evaluate(start, end)
  /\ Bounded(adjoints')
  /\ runs' = Append(runs, [start |-> start, end |-> end, seeds |-> seeds,
                           out |-> adjoints'])
  /\ clean' = FALSE
  /\ UNCHANGED <<primal, seeds, func>>

RecordNext ==
  \/ (\E x \in Inputs : RegisterInput(x)) /\ UNCHANGED external
  \/ (\E op \in Ops, a \in 1 .. largest, b \in 1 .. largest :
        RecordOp(op, a, b)) /\ UNCHANGED external
  \/ (\E id \in 1 .. largest : Seed(id)) /\ UNCHANGED external
  \/ ZeroAdjoints /\ UNCHANGED external
  \/ (\E start \in Positions, end \in Positions : RunReverse(start, end))
     /\ UNCHANGED external

RecordSpec == Init /\ [][RecordNext]_vars

(* ------------------- store and replay, one thread --------------------- *)

\* The matrices stored in StoreSpec: every element of A holds the value 1
\* and the identifier idA (0: A is passive), and so for B.
StoreInput(shape, idA, idB) ==
  [n |-> shape[1], k |-> shape[2], m |-> shape[3],
   A |-> [p \in 1 .. shape[1] * shape[2] |-> 1],
   B |-> [p \in 1 .. shape[2] * shape[3] |-> 1],
   idA |-> [p \in 1 .. shape[1] * shape[2] |-> idA],
   idB |-> [p \in 1 .. shape[2] * shape[3] |-> idB],
   idR |-> Zeros(shape[1] * shape[3])]

StoreInputs ==
  {StoreInput(shape, idA, idB) :
     shape \in Shapes,
     idA \in {i \in StoreIdentifiers : i <= largest},
     idB \in {i \in StoreIdentifiers : i <= largest}}

\* The external-function calls leave the recording's bookkeeping, and the
\* threads, alone.
StoreNext ==
  \/ CreateIdentifier /\ Idle
  \/ /\ Len(lowLevel) < MaxRecords
     /\ \E in \in StoreInputs : Store(in)
     /\ UNCHANGED recording
  \/ \E r \in 1 .. Len(lowLevel) : Forward(r) /\ UNCHANGED recording
  \/ \E r \in 1 .. Len(lowLevel) : Reverse(r) /\ UNCHANGED recording
  \/ \E r \in 1 .. Len(lowLevel) : Del(r) /\ UNCHANGED recording

\* A new tape whose index manager issues identifiers in increasing order.
StoreInit == Init /\ policy = "Linear"

StoreSpec == StoreInit /\ [][StoreNext]_vars

(* ---------------------- store from two threads ------------------------ *)

\* A thread begins store(A, B, R, n, k, m): with an active argument it goes
\* on to registerOnTape, without one to the primal computation.
ThreadBegin(t, active) ==
  /\ pc[t].at = "idle"
  /\ pc[t].stores < MaxStores
  /\ pc' = [pc EXCEPT ![t].at = IF active THEN "check" ELSE "primal"]
  /\ UNCHANGED <<ID, registry>>

\* registerOnTape: the test of ID against the invalid token
ThreadCheck(t) ==
  /\ pc[t].at = "check"
  /\ pc' = [pc EXCEPT ![t].at = IF LowLevelFunctionTokenInvalid = ID
                                 THEN "register" ELSE "push"]
  /\ UNCHANGED <<ID, registry>>

\* registerOnTape: the call of registerLowLevelFunction
ThreadRegister(t) ==
  LET r == registerLowLevelFunction(registry, Entry) IN
  /\ pc[t].at = "register"
  /\ registry' = r.registry
  /\ pc' = [pc EXCEPT ![t].at = "assign", ![t].token = r.token]
  /\ UNCHANGED ID

\* registerOnTape: the assignment of the token to ID
ThreadAssign(t) ==
  /\ pc[t].at = "assign"
  /\ ID' = pc[t].token
  /\ pc' = [pc EXCEPT ![t].at = "push"]
  /\ UNCHANGED registry

\* tape.pushLowLevelFunction(ID, ...) on the thread's tape
ThreadPush(t) ==
  /\ pc[t].at = "push"
  /\ pc' = [pc EXCEPT ![t].at = "primal", ![t].pushed = Append(@, ID)]
  /\ UNCHANGED <<ID, registry>>

\* The primal computation, and store returns.
ThreadFinish(t) ==
  /\ pc[t].at = "primal"
  /\ pc' = [pc EXCEPT ![t].at = "idle", ![t].stores = @ + 1]
  /\ UNCHANGED <<ID, registry>>

\* The threads leave the tape of the model and its records alone: they
\* record on tapes of their own.
ThreadIdle == UNCHANGED <<tape, recording, lowLevel, last, mats>>

ThreadNext ==
  \E t \in Threads :
    \/ \E active \in BOOLEAN : ThreadBegin(t, active) /\ ThreadIdle
    \/ ThreadCheck(t) /\ ThreadIdle
    \/ ThreadRegister(t) /\ ThreadIdle
    \/ ThreadAssign(t) /\ ThreadIdle
    \/ ThreadPush(t) /\ ThreadIdle
    \/ ThreadFinish(t) /\ ThreadIdle

ThreadSpec == Init /\ [][ThreadNext]_vars

(* ------------------- the replay of one multiplication ----------------- *)

Min(a, b) == IF a <= b THEN a ELSE b

\* The seeds of an array of len elements: 1 in one element, and the
\* elements 1, 2, .. len.
SeedArrays(len) ==
  {[p \in 1 .. len |-> IF p = Min(2, len) THEN 1 ELSE 0],
   [p \in 1 .. len |-> p]}

\* The identifiers of an array of len elements registered as inputs after
\* offset others, and of a passive array.
InputIdentifiers(len, offset, active) ==
  [p \in 1 .. len |-> IF active THEN offset + p ELSE 0]

\* The multiplications replayed in MatSpec: A (n x k) and B (k x m) with
\* values of PrimalValues, at least one of them active, with the tangents
\* A_d and B_d of the active ones and the adjoint R_b of R = A * B.
MatInputs ==
  UNION {
    {[eigenStore |-> e, hasPrimalValues |-> FALSE,
      in |-> [n |-> s[1], k |-> s[2], m |-> s[3], A |-> A, B |-> B,
              idA |-> InputIdentifiers(s[1] * s[2], 0, act[1]),
              idB |-> InputIdentifiers(s[2] * s[3], s[1] * s[2], act[2]),
              idR |-> Zeros(s[1] * s[3])],
      A_d |-> A_d, B_d |-> B_d, R_b |-> R_b] :
       A \in [1 .. s[1] * s[2] -> PrimalValues],
       B \in [1 .. s[2] * s[3] -> PrimalValues],
       A_d \in IF act[1] THEN SeedArrays(s[1] * s[2])
               ELSE {Zeros(s[1] * s[2])},
       B_d \in IF act[2] THEN SeedArrays(s[2] * s[3])
               ELSE {Zeros(s[2] * s[3])},
       R_b \in SeedArrays(s[1] * s[3])} :
    e \in StorageOptions, s \in MatShapes,
    act \in {<<TRUE, FALSE>>, <<FALSE, TRUE>>, <<TRUE, TRUE>>}}

\* The inputs A and B are registered on a new tape.
MatInit ==
  /\ mats \in MatInputs
  /\ policy = "Linear"
  /\ largest = Len(mats.in.A) + Len(mats.in.B)
  /\ adjoints = NewAdjoints(1)
  /\ stmts = <<>>
  /\ call = [NoCall EXCEPT !.size = 1]
  /\ primal = <<>>
  /\ seeds = {}
  /\ clean = TRUE
  /\ runs = <<>>
  /\ func = NoFunc
  /\ NoExternal

\* The multiplication is stored.
MatStore ==
  /\ lowLevel = <<>>
  /\ Store(mats.in)

\* The identifiers created for the inputs that the record does not hold.
OtherIdentifiers(rec) ==
  {i \in 1 .. (Len(rec.idA) + Len(rec.idB)) :
     /\ \A p \in 1 .. Len(rec.idA) : rec.idA[p] # i
     /\ \A p \in 1 .. Len(rec.idB) : rec.idB[p] # i}

\* gradient(id) = value for every identifier id # 0 of ids
Seeded(v, ids, values) ==
  [i \in 1 .. Len(v) |->
     IF \E p \in 1 .. Len(ids) : ids[p] # 0 /\ ids[p] = i - 1
     THEN values[CHOOSE p \in 1 .. Len(ids) : ids[p] = i - 1]
     ELSE v[i]]

\* gradient(id) = seed for the identifiers of A and B: the tangents.
MatSeedForward ==
  LET rec == lowLevel[1]
      v == resizeAdjointsVector(adjoints, largest)
  IN  /\ last.op = "store"
      /\ lowLevel # <<>>
      /\ adjoints' = Seeded(Seeded(v, rec.idA, mats.A_d), rec.idB, mats.B_d)
      /\ last' = [last EXCEPT !.op = "seedForward"]
      /\ UNCHANGED <<policy, largest, stmts, call, ID, registry, lowLevel,
                     pc, mats>>

\* gradient(id) = seed for the identifiers of R, and 1 for the identifiers
\* of other variables: the adjoints.
MatSeedReverse ==
  LET rec == lowLevel[1]
      v == resizeAdjointsVector(adjoints, largest)
      others == [i \in 1 .. Len(v) |->
                   IF (i - 1) \in OtherIdentifiers(rec) THEN 1 ELSE v[i]]
  IN  /\ last.op = "store"
      /\ lowLevel # <<>>
      /\ adjoints' = Seeded(others, rec.idR, mats.R_b)
      /\ last' = [last EXCEPT !.op = "seedReverse"]
      /\ UNCHANGED <<policy, largest, stmts, call, ID, registry, lowLevel,
                     pc, mats>>

MatForward == last.op = "seedForward" /\ Forward(1)

MatReverse == last.op = "seedReverse" /\ Reverse(1)

MatNext ==
  \/ MatStore /\ UNCHANGED recording
  \/ MatSeedForward /\ UNCHANGED recording
  \/ MatSeedReverse /\ UNCHANGED recording
  \/ MatForward /\ UNCHANGED recording
  \/ MatReverse /\ UNCHANGED recording

MatSpec == MatInit /\ [][MatNext]_vars

(* ------------------ the activity of the output of store --------------- *)

\* The shapes (n, k, m) of the multiplications stored in MarkSpec.
MarkShapes == {<<2, 2, 2>>, <<1, 2, 2>>, <<2, 1, 1>>}

\* Arrays of len elements of which any may be passive: element p holds
\* the identifier offset + p or the reserved identifier 0.
MixedIdentifiers(len, offset) ==
  {[p \in 1 .. len |-> IF p \in S THEN offset + p ELSE 0] :
     S \in SUBSET (1 .. len)}

\* The multiplications stored in MarkSpec: A holds the values 1, 2, ..
\* and B the values 2, 3, ..; any element of A and of B may be active.
MarkInputs ==
  UNION {
    {[eigenStore |-> e, hasPrimalValues |-> FALSE,
      in |-> [n |-> s[1], k |-> s[2], m |-> s[3],
              A |-> [p \in 1 .. s[1] * s[2] |-> p],
              B |-> [p \in 1 .. s[2] * s[3] |-> p + 1],
              idA |-> idA, idB |-> idB, idR |-> Zeros(s[1] * s[3])],
      A_d |-> <<>>, B_d |-> <<>>, R_b |-> <<>>] :
       idA \in MixedIdentifiers(s[1] * s[2], 0),
       idB \in MixedIdentifiers(s[2] * s[3], s[1] * s[2])} :
    e \in StorageOptions, s \in MarkShapes}

\* The elements of A and B are variables of a new tape, some of them
\* registered as inputs.
MarkInit ==
  /\ mats \in MarkInputs
  /\ policy = "Linear"
  /\ largest = Len(mats.in.A) + Len(mats.in.B)
  /\ adjoints = NewAdjoints(1)
  /\ stmts = <<>>
  /\ call = [NoCall EXCEPT !.size = 1]
  /\ primal = <<>>
  /\ seeds = {}
  /\ clean = TRUE
  /\ runs = <<>>
  /\ func = NoFunc
  /\ NoExternal

\* The multiplication is stored, and its record, if it has one, deleted.
MarkNext ==
  \/ last.op = "none" /\ Store(mats.in) /\ UNCHANGED recording
  \/ last.op = "store" /\ lowLevel # <<>> /\ Del(1) /\ UNCHANGED recording

MarkSpec == MarkInit /\ [][MarkNext]_vars

(* --------------- the replay on a tape with primal values -------------- *)

\* The shapes (n, k, m) of the multiplications stored in PrimalSpec: R has
\* as many elements as A.
PrimalShapes == {<<1, 1, 1>>, <<2, 1, 1>>}

\* The multiplications replayed in PrimalSpec, on a tape with primal
\* values: as in MatSpec, and R is an array of its own (its elements hold
\* no identifier) or the array A itself (a product computed in place).
PrimalInputs ==
  UNION {
    {[eigenStore |-> e, hasPrimalValues |-> TRUE,
      in |-> [n |-> s[1], k |-> s[2], m |-> s[3], A |-> A, B |-> B,
              idA |-> InputIdentifiers(s[1] * s[2], 0, act[1]),
              idB |-> InputIdentifiers(s[2] * s[3], s[1] * s[2], act[2]),
              idR |-> IF inPlace
                      THEN InputIdentifiers(s[1] * s[2], 0, act[1])
                      ELSE Zeros(s[1] * s[3])],
      A_d |-> A_d, B_d |-> B_d, R_b |-> R_b] :
       A \in [1 .. s[1] * s[2] -> PrimalValues],
       B \in [1 .. s[2] * s[3] -> PrimalValues],
       A_d \in IF act[1] THEN SeedArrays(s[1] * s[2])
               ELSE {Zeros(s[1] * s[2])},
       B_d \in IF act[2] THEN SeedArrays(s[2] * s[3])
               ELSE {Zeros(s[2] * s[3])},
       R_b \in SeedArrays(s[1] * s[3])} :
    e \in StorageOptions, s \in PrimalShapes, inPlace \in BOOLEAN,
    act \in {<<TRUE, FALSE>>, <<FALSE, TRUE>>, <<TRUE, TRUE>>}}

\* The primal values of the tape once A and B are registered as inputs:
\* the value of every active element, by its identifier.
InputPrimals(in) ==
  setPrimalsIntoVector(
    setPrimalsIntoVector(Zeros(Len(in.A) + Len(in.B)), in.idA, in.A),
    in.idB, in.B)

\* The inputs A and B are registered on a new tape with primal values,
\* whose index manager is linear or reuses identifiers.
PrimalInit ==
  /\ mats \in PrimalInputs
  /\ policy \in {"Linear", "Reuse"}
  /\ largest = Len(mats.in.A) + Len(mats.in.B)
  /\ adjoints = NewAdjoints(1)
  /\ stmts = <<>>
  /\ call = [NoCall EXCEPT !.size = 1]
  /\ primal = InputPrimals(mats.in)
  /\ seeds = {}
  /\ clean = TRUE
  /\ runs = <<>>
  /\ func = NoFunc
  /\ NoExternal

\* store, forward and reverse write primal values; seeding does not.
PrimalNext ==
  \/ MatStore /\ UNCHANGED <<seeds, clean, runs, func>>
  \/ MatSeedForward /\ UNCHANGED recording
  \/ MatSeedReverse /\ UNCHANGED recording
  \/ MatForward /\ UNCHANGED <<seeds, clean, runs, func>>
  \/ MatReverse /\ UNCHANGED <<seeds, clean, runs, func>>

PrimalSpec == PrimalInit /\ [][PrimalNext]_vars

(* ------------------- increment and decrement operators ---------------- *)

\* The tape while a statement of func executes: the index manager's largest
\* identifier, the statement log, and the variables of func.
Running == [largest |-> largest, stmts |-> stmts, y |-> func.y, r |-> func.r]

\* y[k - 1] = an expression of value `value` with the Jacobian entries args:
\* the linear index manager gives the left-hand side a new identifier and
\* the statement is pushed.
assign(t, k, value, args) ==
  [t EXCEPT !.largest = @ + 1,
            !.stmts = Append(@, [lhs |-> t.largest + 1, args |-> args]),
            !.y[k] = ActiveType(value, t.largest + 1)]

\* y[k - 1] = rhs, rhs an ActiveType: with the copy optimization the
\* left-hand side takes the identifier of rhs and no statement is pushed,
\* without it the copy is the statement y = 1 * rhs.
copy(copyOptimization, t, k, rhs) ==
  IF copyOptimization
  THEN [t EXCEPT !.y[k] = rhs]
  ELSE assign(t, k, rhs.primalValue, <<[id |-> rhs.identifier, jac |-> 1]>>)

\* cast() = cast() + PassiveReal(d) on y[k - 1]
addAssign(t, k, d) ==
  assign(t, k, t.y[k].primalValue + d,
         <<[id |-> t.y[k].identifier, jac |-> 1]>>)

\* operator++() and operator--() on y[k - 1]: the operand is changed and
\* is what the operator yields.
preIncrement(t, k, d) ==
  LET u == addAssign(t, k, d) IN [u EXCEPT !.r = u.y[k]]

\* operator++(int) and operator--(int) on y[k - 1]: Impl r(cast()) copies
\* the operand, the operand is changed, and r is what the operator yields.
postIncrementYieldsUpdated(copyOptimization, t, k, d) ==
  preIncrement(t, k, d)

postIncrement(copyOptimization, t, k, d) ==
  LET c == IF copyOptimization
           THEN [t EXCEPT !.r = t.y[k]]
           ELSE [t EXCEPT !.largest = @ + 1,
                          !.stmts = Append(@,
                            [lhs |-> t.largest + 1,
                             args |-> <<[id |-> t.y[k].identifier,
                                         jac |-> 1]>>]),
                          !.r = ActiveType(t.y[k].primalValue, t.largest + 1)]
  IN  [addAssign(c, k, d) EXCEPT !.r = c.r]

\* The statements of func, in order: "x" is y[k - 1] = x[0]; the others
\* are y[k - 1] = the operator applied to y[k - 2].
funcStatements == <<"x", "++y", "x", "y++", "x", "--y", "x", "y--">>

\* Statement k of func.
Statement(copyOptimization, t, x, k) ==
  LET op == funcStatements[k]
      d == IF op \in {"++y", "y++"} THEN 1 ELSE -1
      u == IF op \in {"++y", "--y"}
           THEN preIncrement(t, k - 1, d)
           ELSE postIncrement(copyOptimization, t, k - 1, d)
  IN  IF op = "x" THEN copy(copyOptimization, t, k, x)
      ELSE copy(copyOptimization, u, k, u.r)

\* The next statement of func is executed.
FuncStep ==
  /\ func.at < OUT
  /\ LET t == Statement(func.copyOptimization, Running, func.x, func.at + 1)
     IN  /\ largest' = t.largest
         /\ stmts' = t.stmts
         /\ func' = [func EXCEPT !.y = t.y, !.r = t.r, !.at = @ + 1]
  /\ call' = Called("push")
  /\ UNCHANGED <<policy, adjoints, primal, seeds, clean, runs>>

\* gradient of y[k - 1] = 1 on the zero vector, for a reverse sweep
FuncSeedOutput(k) ==
  /\ func.at = OUT
  /\ clean
  /\ seeds = {}
  /\ Gradient(func.y[k].identifier, 1)
  /\ seeds' = {func.y[k].identifier}
  /\ func' = [func EXCEPT !.mode = "reverse", !.seeded = k]
  /\ UNCHANGED <<primal, clean, runs>>

\* gradient of x[0] = 1 on the zero vector, for a forward sweep
FuncSeedInput ==
  /\ func.at = OUT
  /\ clean
  /\ seeds = {}
  /\ Gradient(func.x.identifier, 1)
  /\ seeds' = {func.x.identifier}
  /\ func' = [func EXCEPT !.mode = "forward"]
  /\ UNCHANGED <<primal, clean, runs>>

\* evaluate() of the whole recording
FuncEvaluate ==
  /\ func.mode = "reverse"
  /\ clean
  /\ Evaluate(0, Len(stmts))
  /\ clean' = FALSE
  /\ UNCHANGED <<primal, seeds, runs, func>>

\* evaluateForward() of the whole recording
FuncEvaluateForward ==
  /\ func.mode = "forward"
  /\ clean
  /\ EvaluateForward(0, Len(stmts))
  /\ clean' = FALSE
  /\ UNCHANGED <<primal, seeds, runs, func>>

\* clearAdjoints() after a sweep
FuncClearAdjoints ==
  /\ ~clean
  /\ ClearAdjoints
  /\ seeds' = {}
  /\ clean' = TRUE
  /\ func' = [func EXCEPT !.mode = "record", !.seeded = 0]
  /\ UNCHANGED <<primal, runs>>

\* x[0] is registered as the input, with a value of POINTS, on a tape with
\* the linear index manager; y[0] .. y[OUT - 1] are passive zeros.
IncrementInit ==
  /\ policy = "Linear"
  /\ largest = 1
  /\ adjoints = NewAdjoints(1)
  /\ stmts = <<>>
  /\ call = [NoCall EXCEPT !.size = 1]
  /\ primal = <<>>
  /\ seeds = {}
  /\ clean = TRUE
  /\ runs = <<>>
  /\ \E value \in POINTS, copyOptimization \in BOOLEAN :
       func = [NoFunc EXCEPT !.x = ActiveType(value, 1),
                             !.y = [k \in 1 .. OUT |-> ActiveType(0, 0)],
                             !.copyOptimization = copyOptimization]
  /\ NoExternal
  /\ mats = NoMats

IncrementNext ==
  \/ FuncStep /\ UNCHANGED external
  \/ (\E k \in 1 .. OUT : FuncSeedOutput(k)) /\ UNCHANGED external
  \/ FuncSeedInput /\ UNCHANGED external
  \/ FuncEvaluate /\ UNCHANGED external
  \/ FuncEvaluateForward /\ UNCHANGED external
  \/ FuncClearAdjoints /\ UNCHANGED external

IncrementSpec == IncrementInit /\ [][IncrementNext]_vars

(* ------------------------------ claims -------------------------------- *)

AllZero(v) == \A i \in 1 .. Len(v) : v[i] = 0

Max(a, b) == IF a >= b THEN a ELSE b

IsSweep(c) == c.op \in {"evaluate", "evaluateForward"}

\* A sweep over an empty range start = end.
IsEmptySweep(c) == IsSweep(c) /\ ~c.failed /\ ~c.oob /\ c.arg = 0

\* C1: gradient(id) const never reads outside the vector: it returns slot
\* id when id is a valid index and slot 0 otherwise, and leaves the size of
\* the vector as it was.
C1_ConstReadInBounds ==
  call.op = "gradientConst" =>
    /\ ~call.oob
    /\ call.ret = IF InBounds(adjoints, call.arg)
                  THEN Slot(adjoints, call.arg)
                  ELSE Slot(adjoints, 0)
    /\ Size(adjoints) = call.size

\* C2: after the mutating gradient(id), for any id, the vector has at
\* least id + 1 slots, so the reference handed out is in bounds.
C2_MutableAccessInBounds ==
  call.op = "gradient" => Size(adjoints) >= call.arg + 1 /\ ~call.oob

\* C3, as claimed: in every reachable state the vector has at least
\* largest identifier + 1 slots.
C3_SizeCoversLargestAlways == Size(adjoints) >= largest + 1

\* C3, amended: right after evaluate or evaluateForward, and right after a
\* mutating gradient(id) with id at or beyond the size the vector had, the
\* vector has at least largest identifier + 1 slots.
C3_SizeCoversLargestAfterCheck ==
  \/ IsSweep(call)
  \/ call.op = "gradient" /\ call.arg >= call.size
  => Size(adjoints) >= largest + 1

C3_Witness ==
  /\ call.op = "evaluate"
  /\ call.size < largest + 1
  /\ Size(adjoints) = largest + 1

\* C4: only setParameter, deleteAdjointVector and swap make the vector
\* smaller; gradient, evaluate and evaluateForward never do.
C4_NoImplicitShrink ==
  call.op \notin {"setParameter", "deleteAdjointVector", "swap"} =>
    Size(adjoints) >= call.size

\* C5: slot 0 exists in every reachable state.
C5_SlotZeroValid == Size(adjoints) >= 1

\* C6: a sweep never leaves the vector: when evaluate or evaluateForward
\* has run, no access was out of bounds and every identifier up to the
\* largest created one, and so every identifier of a recorded statement, is
\* a valid index.
C6_SweepInBounds ==
  IsSweep(call) =>
    /\ ~call.oob
    /\ \A i \in 0 .. largest : InBounds(adjoints, i)
    /\ SweepInBounds(adjoints, stmts, 0, Len(stmts))

C6_Witness ==
  /\ call.op = "evaluate"
  /\ call.arg >= 1
  /\ \E p \in 1 .. Len(stmts) : \E i \in StmtIds(stmts[p]) : i >= call.size

IsScenario ==
  /\ Len(stmts) = 2
  /\ stmts[1] = [lhs |-> 2, args |-> OpArgs("mul", 1, 1)]
  /\ stmts[2] = [lhs |-> 3, args |-> OpArgs("add", 2, 1)]

\* The whole range of the scenario, swept with adjoint[y1] = 1.
IsScenarioRun(r) == IsScenario /\ r.start = 0 /\ r.end = 2 /\ r.seeds = {3}

\* C8: the reverse sweep goes through the statements in descending order
\* and adds partial * adjoint[lhs] to adjoint[arg]: for y0 = x0 * x0;
\* y1 = y0 + x0 with adjoint[y1] = 1 it yields adjoint[x0] = 2 * x0 + 1,
\* which is 7 at x0 = 3.
C8_ReverseScenario ==
  \A k \in 1 .. Len(runs) :
    IsScenarioRun(runs[k]) =>
      /\ Slot(runs[k].out, 1) = 2 * primal[1] + 1
      /\ primal[1] = 3 => Slot(runs[k].out, 1) = 7

C8_Witness ==
  /\ runs # <<>>
  /\ IsScenarioRun(runs[1])
  /\ primal = <<3, 9, 12>>
  /\ Slot(runs[1].out, 1) = 7

C10_InvalidRangeFailsFast ==
  [][IsSweep(call') /\ call'.invalid =>
       /\ call'.failed
       /\ call'.arg = 0
       /\ adjoints' = Resize(adjoints, Size(adjoints'))
       /\ Size(adjoints') >= Size(adjoints)]_vars

C10_Witness ==
  /\ IsSweep(call)
  /\ call.invalid
  /\ call.failed
  /\ ~AllZero(adjoints)
  /\ stmts # <<>>

\* C11: clearAdjoints sets every slot of the vector to zero and leaves the
\* size of the vector as it was, whatever that size is.
C11_ClearZeroesKeepsSize ==
  call.op = "clearAdjoints" =>
    AllZero(adjoints) /\ Size(adjoints) = call.size

C11_Witness ==
  /\ call.op = "clearAdjoints"
  /\ Size(adjoints) = MaxSize
  /\ AllZero(adjoints)

IsParameterCall(c) == c.op \in {"getParameter", "setParameter"}

\* C12: getParameter and setParameter on a parameter the tape does not
\* support end with an error and leave the adjoint vector, its size and
\* its contents, as it was; getParameter(AdjointSize) returns the size of
\* the vector and setParameter(AdjointSize, value) resizes it to value.
C12_ParameterInterface ==
  [][IsParameterCall(call') =>
       /\ call'.failed => adjoints' = adjoints
       /\ ~call'.failed /\ call'.op = "getParameter" =>
            call'.ret = Size(adjoints) /\ adjoints' = adjoints
       /\ ~call'.failed /\ call'.op = "setParameter" =>
            adjoints' = Resize(adjoints, call'.arg)]_vars

C12_Witness ==
  /\ IsParameterCall(call)
  /\ call.failed
  /\ Size(adjoints) = MaxSize
  /\ ~AllZero(adjoints)

\* C13: registration is idempotent: over any sequence of store calls at
\* most one function is registered, ID never changes once it differs from
\* the invalid token, and every record on the tape carries the token ID.
C13_RegisteredOnce ==
  [][/\ Len(registry') <= 1
     /\ ID # LowLevelFunctionTokenInvalid => ID' = ID
     /\ \A r \in 1 .. Len(lowLevel') : lowLevel'[r].token = ID']_vars

C13_Witness ==
  /\ Len(lowLevel) = 2
  /\ Len(registry) = 1
  /\ ID # LowLevelFunctionTokenInvalid
  /\ lowLevel[1].token = lowLevel[2].token

\* C14: when two threads make their first active store call at the same
\* time, the function is registered once: no second token is created.
C14_OneTokenAcrossThreads ==
  /\ Len(registry) <= 1
  /\ \A t \in Threads, u \in Threads :
       \A p \in 1 .. Len(pc[t].pushed), q \in 1 .. Len(pc[u].pushed) :
         pc[t].pushed[p] = pc[u].pushed[q]

\* The arguments of the last store call are passive: no element of A or B
\* holds an identifier other than 0.
IsPassiveStore(l) ==
  /\ l.op = "store"
  /\ \A p \in 1 .. Len(l.args.idA) : l.args.idA[p] = 0
  /\ \A p \in 1 .. Len(l.args.idB) : l.args.idB[p] = 0

\* R = A * B, element by element.
IsProduct(eigenStore, R, in) ==
  \A i \in 1 .. in.n, j \in 1 .. in.m :
    mapEigen(eigenStore, R, in.n, in.m)[i, j]
      = SumSeq([l \in 1 .. in.k |->
                  mapEigen(eigenStore, in.A, in.n, in.k)[i, l]
                  * mapEigen(eigenStore, in.B, in.k, in.m)[l, j]])

\* C15: a store call whose arguments are passive computes R = A * B and
\* nothing else: ID and the registry stay as they are, pushLowLevelFunction
\* is not called and nothing is added to the tape.
C15_PassiveStoreRecordsNothing ==
  [][IsPassiveStore(last') =>
       /\ ID' = ID
       /\ registry' = registry
       /\ lowLevel' = lowLevel
       /\ stmts' = stmts
       /\ last'.calls = <<"callPrimal", "setExternalFunctionOutput", "free">>
       /\ IsProduct(mats.eigenStore, last'.R, last'.args)
       /\ \A p \in 1 .. Len(last'.idR) : last'.idR[p] = 0]_vars

C15_Witness ==
  /\ IsPassiveStore(last)
  /\ last.args.n = 2
  /\ last.args.m = 2
  /\ Len(lowLevel) = 1
  /\ ID # LowLevelFunctionTokenInvalid

\* The fields store writes to a record, in the order it writes them.
StoreOrderFixed == <<"activity", "A", "B", "R", "n", "k", "m", "activity">>
StoreOrderDynamic == <<"A", "B", "R", "n", "k", "m">>

\* C16: forward restores the fields of a record in the order store wrote
\* them, in the fixed segment and then in the dynamic segment, whatever the
\* activity of A and B: activity, A, B, R, n, k, m, activity.
C16_ForwardSameOrder ==
  last.op = "forward" =>
    /\ Names(last.fixed) = Names(lowLevel[last.rec].fixed)
    /\ Names(last.dynamic) = Names(lowLevel[last.rec].dynamic)
    /\ Names(last.fixed) = StoreOrderFixed
    /\ Names(last.dynamic) = StoreOrderDynamic

C16_Witness ==
  /\ last.op = "forward"
  /\ last.rec = 2
  /\ lowLevel[1].fixed[1].value # lowLevel[2].fixed[1].value
  /\ Names(last.fixed) = StoreOrderFixed

\* C17, as claimed: reverse and del restore the fields of a record in the
\* order store wrote them, in the fixed and in the dynamic segment.
C17_ReplaySameOrder ==
  last.op \in {"reverse", "del"} =>
    /\ Names(last.fixed) = Names(lowLevel[last.rec].fixed)
    /\ Names(last.dynamic) = Names(lowLevel[last.rec].dynamic)

\* C17, amended: reverse and del restore the fields of a record in the
\* opposite order to the one store wrote them in, in the fixed segment and
\* then in the dynamic segment: activity, m, k, n, R, B, A, activity, and
\* m, k, n, R, B, A.
C17_ReplayMirrorOrder ==
  last.op \in {"reverse", "del"} =>
    /\ Names(last.fixed) = Mirror(Names(lowLevel[last.rec].fixed))
    /\ Names(last.dynamic) = Mirror(Names(lowLevel[last.rec].dynamic))
    /\ Names(last.fixed) = Mirror(StoreOrderFixed)
    /\ Names(last.dynamic) = Mirror(StoreOrderDynamic)

C17_Witness ==
  /\ last.op = "reverse"
  /\ last.rec = 2
  /\ Names(last.fixed) = Mirror(StoreOrderFixed)
  /\ Names(last.fixed) # StoreOrderFixed

\* The activity flag of argument arg (0: A, 1: B) in a record.
RecordActivity(rec, arg) == getActivity(rec.fixed[1].value, arg)

\* The identifiers a record holds for the arguments named.
IdentifiersOf(rec, args) ==
  (IF "A" \in args THEN {rec.idA[p] : p \in 1 .. Len(rec.idA)} ELSE {})
  \cup (IF "B" \in args THEN {rec.idB[p] : p \in 1 .. Len(rec.idB)} ELSE {})
  \cup (IF "R" \in args THEN {rec.idR[p] : p \in 1 .. Len(rec.idR)} ELSE {})

\* The arguments of a record whose activity flag is set.
ActiveArguments(rec) ==
  (IF RecordActivity(rec, 0) THEN {"A"} ELSE {})
  \cup (IF RecordActivity(rec, 1) THEN {"B"} ELSE {})

\* The slots of the vector a replay changed.
ChangedSlots(l) ==
  {i \in 0 .. (Size(adjoints) - 1) : Slot(adjoints, i) # Slot(l.before, i)}

IsScenarioRecord(rec) ==
  /\ rec.fixed[5].value = 2
  /\ rec.fixed[6].value = 2
  /\ rec.fixed[7].value = 2
  /\ ActiveArguments(rec) = {"A"}

\* C19: for n = k = m = 2, A active and B passive, reverse leaves in the
\* adjoints of A, zero before, R_b * transpose(B), with B as it was when
\* the multiplication was stored, and writes to no slot that belongs to
\* another input: B has none, and the slots of other variables and slot 0
\* stay as they were.
C19_ReverseScenario ==
  last.op = "reverse" /\ IsScenarioRecord(lowLevel[last.rec]) =>
    LET rec == lowLevel[last.rec]
        e == mats.eigenStore
        B == mapEigen(e, mats.in.B, 2, 2)
        R_b == mapEigen(e, mats.R_b, 2, 2)
        A_b == mapEigen(e, getGradients(adjoints, FALSE, rec.idA), 2, 2)
    IN  /\ \A i \in 1 .. 2, l \in 1 .. 2 :
             A_b[i, l] = R_b[i, 1] * B[l, 1] + R_b[i, 2] * B[l, 2]
        /\ \A i \in 0 .. (Size(adjoints) - 1) :
             i \notin IdentifiersOf(rec, {"A", "R"}) =>
               Slot(adjoints, i) = Slot(last.before, i)

C19_Witness ==
  /\ last.op = "reverse"
  /\ IsScenarioRecord(lowLevel[1])
  /\ mats.R_b = <<1, 2, 3, 4>>
  /\ mats.in.B = <<1, 2, 1, 1>>
  /\ mats.eigenStore = "RowMajor"
  /\ getGradients(adjoints, FALSE, lowLevel[1].idA) = <<5, 3, 11, 7>>
  /\ \A i \in OtherIdentifiers(lowLevel[1]) : Slot(adjoints, i) = 1
  /\ OtherIdentifiers(lowLevel[1]) # {}

\* The inner product of two arrays.
Inner(x, y) == SumSeq([p \in 1 .. Len(x) |-> x[p] * y[p]])

\* The gradients of the identifiers ids, zero for an inactive argument.
GradientsAt(ids, active) ==
  IF active THEN getGradients(adjoints, FALSE, ids) ELSE Zeros(Len(ids))

\* C20: callForward and callReverse are dual: with the accumulators zero
\* at the start, <R_b, R_d> = <A_d, A_b> + <B_d, B_b> for the tangent
\* R_d = A_d * B + A * B_d of callForward and the adjoints
\* A_b = R_b * transpose(B) and B_b = transpose(A) * R_b of callReverse, an
\* inactive argument contributing zero.  The result of the replay made is
\* compared with the other function's result for the same multiplication.
C20_ForwardReverseDual ==
  last.op \in {"forward", "reverse"} =>
    LET rec == lowLevel[last.rec]
        in == mats.in
        active_A == RecordActivity(rec, 0)
        active_B == RecordActivity(rec, 1)
        R_d == IF last.op = "forward"
               THEN getGradients(adjoints, FALSE, rec.idR)
               ELSE callForward(mats.eigenStore, in.A, active_A, mats.A_d,
                                in.B, active_B, mats.B_d,
                                Zeros(in.n * in.m), in.n, in.k, in.m).R_d_out
        b == IF last.op = "reverse"
             THEN [A_b_in |-> GradientsAt(rec.idA, active_A),
                   B_b_in |-> GradientsAt(rec.idB, active_B)]
             ELSE callReverse(mats.eigenStore, in.A, active_A,
                              Zeros(in.n * in.k), in.B, active_B,
                              Zeros(in.k * in.m), mats.R_b,
                              in.n, in.k, in.m)
    IN  Inner(mats.R_b, R_d)
          = Inner(mats.A_d, b.A_b_in) + Inner(mats.B_d, b.B_b_in)

C20_Witness ==
  /\ last.op = "forward"
  /\ ActiveArguments(lowLevel[1]) = {"A", "B"}
  /\ mats.in.n = 2
  /\ mats.in.m = 2
  /\ Inner(mats.R_b, getGradients(adjoints, FALSE, lowLevel[1].idR)) > 0

IsReplay(l) == l.op \in {"forward", "reverse", "del"}

\* C21: del leaves the adjoint vector and the primal values as they are,
\* reads and writes no gradient, restores the fields of the record by the
\* restore calls of reverse (the same fields in the same order, with the
\* same lengths and actions) and then only releases the allocator.
C21_DeleteTouchesNoGradient ==
  [][last'.op = "del" =>
       /\ adjoints' = adjoints
       /\ primal' = primal
       /\ last'.gets = {} /\ last'.sets = {}
       /\ LET s == RestoreRecord(lowLevel[last'.rec], reverseFixed, reverseDynamic)
          IN  last'.fixed = s.fixed /\ last'.dynamic = s.dynamic
       /\ last'.calls = <<"free">>]_vars

\* del is called on the second record after a replay has sized the vector.
C21_Witness ==
  /\ last.op = "del"
  /\ last.rec = 2
  /\ Len(adjoints) > 1
  /\ Len(last.fixed) = 8 /\ Len(last.dynamic) = 6

\* How often a function is named in a sequence of calls.
Times_called(calls, f) == Cardinality({p \in 1 .. Len(calls) : calls[p] = f})

\* C22: every call of store, on the active and on the passive path, and of
\* forward, reverse and del calls allocator.free() exactly once, as the
\* last thing it does.
C22_AllocatorFreedOnce ==
  (last.op \in {"store"} \/ IsReplay(last)) =>
    /\ Times_called(last.calls, "free") = 1
    /\ last.calls[Len(last.calls)] = "free"

\* A passive store made after an active one.
C22_Witness ==
  /\ last.op = "store"
  /\ ~last.active
  /\ lowLevel # <<>>
  /\ last.calls[Len(last.calls)] = "free"

Arrays == {"A", "B", "R"}
Dimensions == {"n", "k", "m"}

\* The length a record holds for a field: the length store passed.
StoredLength(segment, field) ==
  segment[CHOOSE p \in 1 .. Len(segment) : segment[p].field = field].len

\* Every restore call of a trace for an array is passed the length the
\* array was stored with.
LengthsRestored(trace, segment) ==
  \A p \in 1 .. Len(trace) :
    trace[p].field \in Arrays => trace[p].len = StoredLength(segment, trace[p].field)

\* Every restore call of a trace for an array comes after the calls for
\* n, k and m.
DimensionsFirst(trace) ==
  \A p, q \in 1 .. Len(trace) :
    (trace[p].field \in Arrays /\ trace[q].field \in Dimensions) => q < p

\* C25 as stated: in forward, reverse and del, n, k and m are restored
\* before any restore call for A, B or R, on either segment, so that no
\* such call is passed a length computed from a dimension that is still 0.
C25_DimensionsBeforeArrays ==
  IsReplay(last) =>
    /\ DimensionsFirst(last.fixed)
    /\ LengthsRestored(last.fixed, lowLevel[last.rec].fixed)
    /\ LengthsRestored(last.dynamic, lowLevel[last.rec].dynamic)

\* C25, amended: in forward, reverse and del, n, k and m are restored from
\* the fixed segment before any restore call for A, B or R on the dynamic
\* segment, which is passed the length the array was stored with; reverse
\* and del restore n, k and m before the calls for A, B and R on the fixed
\* segment too, while forward makes those calls first, each with length 0.
C25_DimensionsBeforeDynamicArrays ==
  IsReplay(last) =>
    /\ \A d \in Dimensions : \E p \in 1 .. Len(last.fixed) :
         last.fixed[p].field = d /\ last.fixed[p].value > 0
    /\ LengthsRestored(last.dynamic, lowLevel[last.rec].dynamic)
    /\ last.op \in {"reverse", "del"} =>
         /\ DimensionsFirst(last.fixed)
         /\ LengthsRestored(last.fixed, lowLevel[last.rec].fixed)
    /\ last.op = "forward" =>
         \A p \in 1 .. Len(last.fixed) :
           last.fixed[p].field \in Arrays =>
             /\ last.fixed[p].len = 0
             /\ \A q \in 1 .. Len(last.fixed) :
                  last.fixed[q].field \in Dimensions => p < q

\* forward, reverse and del have each replayed a record of a 2 x 1 by
\* 1 x 2 multiplication; here it is forward.
C25_Witness ==
  /\ last.op = "forward"
  /\ StoredLength(lowLevel[last.rec].dynamic, "R") = 4
  /\ StoredLength(last.dynamic, "R") = 4
  /\ StoredLength(last.fixed, "R") = 0

\* C26: the sizes store passes to pushLowLevelFunction are the bytes the
\* store calls write: the activity mask is counted twice and stored twice,
\* and A, B, R, n, k, m are counted and stored in the same order with the
\* same lengths and the same actions.
C26_CountedIsStored ==
  \A r \in 1 .. Len(lowLevel) :
    LET rec == lowLevel[r]
        arguments == SubSeq(rec.fixed, 2, Len(rec.fixed) - 1)
    IN  /\ rec.sizeFixed = SumFixed(rec.fixed)
        /\ rec.sizeDynamic
             = SumDynamic(rec.dynamic, mats.hasPrimalValues, policy = "Linear")
        /\ rec.fixed[1].field = "activity"
        /\ rec.fixed[Len(rec.fixed)].field = "activity"
        /\ Len(arguments) = Len(rec.counted)
        /\ Len(rec.dynamic) = Len(rec.counted)
        /\ \A p \in 1 .. Len(rec.counted) :
             /\ rec.counted[p].field = arguments[p].field
             /\ rec.counted[p].len = arguments[p].len
             /\ rec.counted[p].actions = arguments[p].actions
             /\ rec.counted[p].field = rec.dynamic[p].field
             /\ rec.counted[p].len = rec.dynamic[p].len
             /\ rec.counted[p].actions = rec.dynamic[p].actions

\* A record of a 2 x 1 by 1 x 2 multiplication with A active and B
\* passive: identifiers of A and R, primal values of B.
C26_Witness ==
  \E r \in 1 .. Len(lowLevel) :
    /\ StoredLength(lowLevel[r].dynamic, "R") = 4
    /\ RecordActivity(lowLevel[r], 0) /\ ~RecordActivity(lowLevel[r], 1)
    /\ lowLevel[r].sizeFixed = 5
    /\ lowLevel[r].sizeDynamic = 2 * 4 + 2 * 8 + 4 * 4

\* The actions of an argument as the claim gives them.
ClaimedActions(field, active_A, active_B) ==
  IF field = "A"
  THEN [tapeActive |-> TRUE, isInput |-> TRUE, isOutput |-> FALSE,
        isInputActive |-> active_A, primalRequired |-> active_B]
  ELSE IF field = "B"
  THEN [tapeActive |-> TRUE, isInput |-> TRUE, isOutput |-> FALSE,
        isInputActive |-> active_B, primalRequired |-> active_A]
  ELSE [tapeActive |-> TRUE, isInput |-> FALSE, isOutput |-> TRUE,
        isInputActive |-> FALSE, primalRequired |-> TRUE]

\* A restore trace takes, call by call, the bytes the matching store call
\* wrote, and passes for an array the actions it was stored with.
Consumes(trace, stored, isFixed) ==
  /\ Len(trace) = Len(stored)
  /\ \A p \in 1 .. Len(trace) :
       /\ trace[p].field = stored[p].field
       /\ IF isFixed THEN FixedBytes(trace[p]) = FixedBytes(stored[p])
          ELSE DynamicBytes(trace[p], mats.hasPrimalValues, policy = "Linear")
               = DynamicBytes(stored[p], mats.hasPrimalValues, policy = "Linear")
       /\ trace[p].field \in Arrays => trace[p].actions = stored[p].actions

\* C27: forward, reverse and del each take from the fixed and from the
\* dynamic segment exactly the bytes store wrote there (forward field by
\* field in the order of store, reverse and del in the opposite order),
\* and pass for A, B and R the actions store passed: A an input, active
\* when A is, its primal values required when B is active; B likewise; R
\* an output with primal values required.
C27_RestoredIsStored ==
  IsReplay(last) =>
    LET rec == lowLevel[last.rec]
        forward == last.op = "forward"
        active_A == RecordActivity(rec, 0)
        active_B == RecordActivity(rec, 1)
    IN  /\ SumFixed(last.fixed) = rec.sizeFixed
        /\ SumDynamic(last.dynamic, mats.hasPrimalValues, policy = "Linear")
             = rec.sizeDynamic
        /\ Consumes(last.fixed,
                    IF forward THEN rec.fixed ELSE Mirror(rec.fixed), TRUE)
        /\ Consumes(last.dynamic,
                    IF forward THEN rec.dynamic ELSE Mirror(rec.dynamic), FALSE)
        /\ \A p \in 1 .. Len(last.dynamic) :
             last.dynamic[p].field \in Arrays =>
               last.dynamic[p].actions
                 = ClaimedActions(last.dynamic[p].field, active_A, active_B)
        /\ \A p \in 1 .. Len(last.fixed) :
             last.fixed[p].field \in Arrays =>
               last.fixed[p].actions
                 = ClaimedActions(last.fixed[p].field, active_A, active_B)

\* reverse has replayed a record of a 1 x 2 by 2 x 1 multiplication with
\* B active and A passive.
C27_Witness ==
  /\ last.op = "reverse"
  /\ ~RecordActivity(lowLevel[last.rec], 0)
  /\ RecordActivity(lowLevel[last.rec], 1)
  /\ StoredLength(last.dynamic, "A") = 2
  /\ SumDynamic(last.dynamic, mats.hasPrimalValues, policy = "Linear")
       = 2 * 8 + 2 * 4 + 1 * 4

\* C28: every record on the tape carries the token of a registered
\* function, never the invalid one: store calls registerOnTape before
\* pushLowLevelFunction.
C28_PushedTokenRegistered ==
  /\ \A r \in 1 .. Len(lowLevel) :
       /\ lowLevel[r].token # LowLevelFunctionTokenInvalid
       /\ lowLevel[r].token \in 1 .. Len(registry)
       /\ registry[lowLevel[r].token] = Entry
  /\ (last.op = "store" /\ last.active) =>
       \E p, q \in 1 .. Len(last.calls) :
         /\ p < q
         /\ last.calls[p] = "registerOnTape"
         /\ last.calls[q] = "pushLowLevelFunction"

\* Two records have been stored, the second by a store that found the
\* function registered.
C28_Witness ==
  /\ Len(lowLevel) = 2
  /\ last.op = "store" /\ last.active
  /\ Len(registry) = 1
  /\ lowLevel[2].token = ID

\* The place of element (i, j) of a rows x cols matrix in its array.
At(eigenStore, rows, cols, i, j) ==
  IF eigenStore = "RowMajor" THEN (i - 1) * cols + j ELSE (j - 1) * rows + i

\* C30: after an active store the marker of element (i, j) of R is not
\* zero exactly when A is active and an element of row i of A holds an
\* identifier other than 0, or B is active and an element of column j of B
\* does; and R = A * B after an active and after a passive store.
C30_OutputActivity ==
  last.op = "store" =>
    LET in == last.args
        e == mats.eigenStore
        active_A == \E p \in 1 .. Len(in.idA) : in.idA[p] # 0
        active_B == \E p \in 1 .. Len(in.idB) : in.idB[p] # 0
    IN  /\ last.active = (active_A \/ active_B)
        /\ \A i \in 1 .. in.n, j \in 1 .. in.m :
             /\ last.R[At(e, in.n, in.m, i, j)]
                  = SumSeq([l \in 1 .. in.k |->
                              in.A[At(e, in.n, in.k, i, l)]
                              * in.B[At(e, in.k, in.m, l, j)]])
             /\ last.active =>
                  ((last.R_i_out[At(e, in.n, in.m, i, j)] # 0)
                   <=> \/ /\ active_A
                          /\ \E l \in 1 .. in.k :
                               in.idA[At(e, in.n, in.k, i, l)] # 0
                       \/ /\ active_B
                          /\ \E l \in 1 .. in.k :
                               in.idB[At(e, in.k, in.m, l, j)] # 0)

\* A 2 x 2 by 2 x 2 multiplication stored column-major with one active
\* element in row 1 of A and B passive: row 1 of R is marked, row 2 is not.
C30_Witness ==
  /\ last.op = "store" /\ last.active
  /\ mats.eigenStore = "ColMajor"
  /\ last.args.idA = <<0, 0, 3, 0>>
  /\ ~isActive(last.args.idB)
  /\ last.R_i_out = <<1, 0, 1, 0>>
  /\ last.R = <<2 + 9, 4 + 12, 4 + 15, 8 + 20>>

\* The primal values the tape holds for the identifiers ids.
PrimalsAt(ids) ==
  [p \in 1 .. Len(ids) |->
     IF ids[p] # 0 /\ ids[p] <= Len(primal) THEN primal[ids[p]] ELSE 0]

\* The step of a replay named x comes before the step named y.
Before(steps, x, y) ==
  \A p, q \in 1 .. Len(steps) : (steps[p] = x /\ steps[q] = y) => p < q

\* The primal value the identifier of element p of R had before store:
\* the value of the element of A that holds it, or none.
OldValue(in, rec, p) ==
  IF \E q \in 1 .. Len(in.idA) : in.idA[q] = rec.idR[p]
  THEN in.A[CHOOSE q \in 1 .. Len(in.idA) : in.idA[q] = rec.idR[p]]
  ELSE 0

\* C23: on a tape with primal values that reuses identifiers, reverse
\* writes the old primal values of R back before it reads a primal value
\* of A or B, so that the derivative is evaluated with the values A and B
\* had when the multiplication was stored, also when R took the
\* identifiers of A; on a tape with a linear index manager it writes no
\* primal value.
C23_OldPrimalsRestoredFirst ==
  (last.op = "reverse" /\ mats.hasPrimalValues) =>
    LET rec == lowLevel[last.rec]
        in == mats.in
        active_A == RecordActivity(rec, 0)
        active_B == RecordActivity(rec, 1)
    IN  /\ active_A => last.inputs.B = in.B
        /\ active_B => last.inputs.A = in.A
        /\ IF policy = "Linear"
           THEN /\ \A p \in 1 .. Len(last.steps) :
                     last.steps[p] # "setOldPrimals R"
                /\ IsProduct(mats.eigenStore, PrimalsAt(rec.idR), in)
           ELSE /\ last.steps[1] = "setOldPrimals R"
                /\ Before(last.steps, "setOldPrimals R", "getPrimals A")
                /\ Before(last.steps, "setOldPrimals R", "getPrimals B")
                /\ \A p \in 1 .. Len(rec.idR) :
                     rec.idR[p] # 0 => primal[rec.idR[p]] = OldValue(in, rec, p)

\* reverse has replayed a product computed in place, R in the array A,
\* with A and B active, on a tape that reuses identifiers: store had
\* overwritten the value 1 of A by the product 2.
C23_Witness ==
  /\ last.op = "reverse"
  /\ policy = "Reuse"
  /\ lowLevel[1].idR = lowLevel[1].idA
  /\ isActive(lowLevel[1].idA) /\ isActive(lowLevel[1].idB)
  /\ mats.in.A = <<1>> /\ mats.in.B = <<2>>
  /\ last.steps = <<"setOldPrimals R", "getPrimals A", "getPrimals B",
                    "callReverse">>
  /\ last.inputs.A = <<1>>
  /\ primal[1] = 1

\* C29: after forward on a tape with primal values, the primal values
\* the tape holds for the identifiers of R are the product A * B that the
\* replay computed, which it wrote once callForward had computed it.
C29_ForwardWritesProduct ==
  (last.op = "forward" /\ mats.hasPrimalValues) =>
    /\ Before(last.steps, "callForward", "setPrimals R")
    /\ \A p \in 1 .. Len(last.idR) :
         last.idR[p] # 0 => primal[last.idR[p]] = last.R[p]

\* The values of y[0] .. y[7] that func computes at x.
Expected(x) == <<x + 1, x + 1, x + 1, x, x - 1, x - 1, x - 1, x>>

=============================================================================
